---- MODULE Spec2Model ----
(***************************************************************************)
(* Radio ads manager: airing events (veiculacoes), their ingestion, and    *)
(* the reconciliation of events against contracts (contract items and      *)
(* per-file quotas).                                                       *)
(*                                                                         *)
(* Sources modelled:                                                       *)
(*   backend/app/models.py                      tables and column defaults *)
(*   backend/app/database.py                    unique index on events     *)
(*   backend/app/routers/veiculacoes.py         API endpoints              *)
(*   backend/app/services/veiculacoes_service.py  reconciliation service   *)
(*   backend/app/routers/contratos.py           file-quota endpoints       *)
(*                                                                         *)
(* SQL NULL / Python None is NULL (0) in integer columns and NullStr in    *)
(* string columns.  A timestamp is [dia, hora]; dia 1 is a Monday.         *)
(***************************************************************************)
EXTENDS Integers, Sequences, FiniteSets, TLC

NULL == 0
NullStr == "NULL"

\* ---------------------------------------------------------------- bounds
\* Number of airing events ever inserted (primary keys are not reused).
MaxVeiculacoes == 2
\* Cap on every quantidade_executada counter (the code has none).
MaxExecutada == 2

\* ---------------------------------------------------------------- domains
\* Table arquivos_audio: two registered files, both of client 1.
Arquivos == 1 :> [cliente_id |-> 1] @@ 2 :> [cliente_id |-> 1]
ArquivoIds == DOMAIN Arquivos
\* An arquivo_audio_id that no row of arquivos_audio has.
ArquivoInexistente == 9
ClienteDoArquivo(a) == Arquivos[a].cliente_id

\* dia 5 is a Friday, dia 6 a Saturday; hora 11 is inside 11:00-14:00, hora 10 is not.
Dias == {5, 6}

Payload(a, dia, hora, frequencia, tipo_programa, fonte) ==
    [arquivo_audio_id |-> a, data_hora |-> [dia |-> dia, hora |-> hora],
     frequencia |-> frequencia, tipo_programa |-> tipo_programa, fonte |-> fonte]

\* Request bodies of POST /veiculacoes/ (schemas.VeiculacaoCreate): automatic and
\* manual events, inside and outside the exemption window, on both frequencies
\* and without one, with and without a program type, for both files.
Payloads ==
    { Payload(1, 5, 11, "102.7", NullStr, "zara_log"),
      Payload(1, 5, 11, "102.7", NullStr, "manual"),
      Payload(1, 5, 10, "102.7", "esporte", "zara_log"),
      Payload(2, 6, 11, "102.7", NullStr, "zara_log"),
      Payload(1, 5, 11, "104.7", "esporte", "zara_log"),
      Payload(2, 5, 10, NullStr, "esporte", "zara_log") }

\* Items of POST /veiculacoes/ingest/lote: a registered file, or the raw basename
\* of a file that is not registered.
ItemLote(a, raw, dia, hora, frequencia) ==
    [arquivo_audio_id |-> a, nome_arquivo_raw |-> raw,
     data_hora |-> [dia |-> dia, hora |-> hora], frequencia |-> frequencia,
     tipo_programa |-> NullStr, fonte |-> "zara_log"]

ItemCadastrado == ItemLote(1, NullStr, 5, 11, "102.7")
ItemAvulso == ItemLote(NULL, "avulso.mp3", 5, 10, "102.7")

\* Request bodies of the bulk endpoint.
Lotes == { <<ItemCadastrado>>, <<ItemCadastrado, ItemCadastrado>>,
           <<ItemAvulso>>, <<ItemAvulso, ItemCadastrado>> }

\* ---------------------------------------------------------------- state
VARIABLES
    veiculacoes,   \* table veiculacoes: id -> row
    proximoId,     \* next primary key of veiculacoes
    contratos,     \* table contratos: id -> row
    itens,         \* table contrato_itens: id -> row
    metas,         \* table contrato_arquivo_metas: <<contrato_id, arquivo_audio_id>> -> row
    credito,       \* history: id of event -> the counter its last credit went to
    entrada,       \* arguments of a function call under study, << >> when there is none
    saida,         \* << >> while the call is pending, <<value>> once it has returned
    passo,         \* the database session of a reconcile pass in progress
    monitor,       \* the LogMonitor instance and the log file it reads
    watch          \* watch mode: the pending markers, the tick of the loop, the time

vars == <<veiculacoes, proximoId, contratos, itens, metas, credito, entrada, saida,
          passo, monitor, watch>>

\* The variables the backend's handlers do not touch.
outras == <<entrada, saida, passo, monitor, watch>>

\* LogMonitor.__init__, and an empty log file. The offsets count lines. buscas is
\* history: the number of requests GET /arquivos sent for each basename.
MonitorInicial ==
    [arquivo |-> << >>,
     file_offsets |-> [definido |-> FALSE, valor |-> 0],
     veiculacoes_criadas |-> 0,
     erros |-> 0,
     dedupe_cache |-> {},
     arquivo_id_cache |-> << >>,
     enviados |-> << >>,
     buscas |-> << >>]

\* Watch mode before run_watch_mode: no pending marker (LogMonitor.__init__), the
\* loop at its sleep, no line handed to the parser.
WatchInicial ==
    [pending_events |-> << >>, pc |-> "sleep", dormido |-> 0, tamanho |-> 0, pos |-> 0,
     keys_processar |-> << >>, lidas |-> 0]

\* No function call under study, no pass in progress, the monitor just built.
InitOutras ==
    /\ entrada = << >>
    /\ saida = << >>
    /\ passo = [ativo |-> FALSE]
    /\ monitor = MonitorInicial
    /\ watch = WatchInicial

\* Counter names used by the history variable.
SemCredito == <<"nenhum", 0, 0>>
ContadorItem(i) == <<"item", i, 0>>
ContadorMeta(c, a) == <<"meta", c, a>>


\* ---------------------------------------------------------------- initial tables
\* Contracts present in the database.  Contract 1 is another client's,
\* contract 2 is not active, contract 3 is valid on dia 5 only and scoped to 104.7,
\* contract 4 is open-ended (data_fim NULL) with wildcard / unset frequency.
ContratosIniciais(freq4) ==
    1 :> [cliente_id |-> 2, status_contrato |-> "ativo", data_inicio |-> 5,
          data_fim |-> NULL, frequencia |-> "ambas"]
 @@ 2 :> [cliente_id |-> 1, status_contrato |-> "cancelado", data_inicio |-> 5,
          data_fim |-> NULL, frequencia |-> "ambas"]
 @@ 3 :> [cliente_id |-> 1, status_contrato |-> "ativo", data_inicio |-> 5,
          data_fim |-> 5, frequencia |-> "104.7"]
 @@ 4 :> [cliente_id |-> 1, status_contrato |-> "ativo", data_inicio |-> 5,
          data_fim |-> NULL, frequencia |-> freq4]

ItensIniciais ==
    1 :> [contrato_id |-> 1, tipo_programa |-> "musical", quantidade_executada |-> 0]
 @@ 2 :> [contrato_id |-> 2, tipo_programa |-> "musical", quantidade_executada |-> 0]
 @@ 3 :> [contrato_id |-> 3, tipo_programa |-> "musical", quantidade_executada |-> 0]
 @@ 4 :> [contrato_id |-> 4, tipo_programa |-> "musical", quantidade_executada |-> 0]
 @@ 5 :> [contrato_id |-> 4, tipo_programa |-> "esporte", quantidade_executada |-> 0]

\* (contract, file) pairs for which the quota endpoints are exercised.
ParesMeta == { <<3, 1>> }

\* ---------------------------------------------------------------- helpers
Min(S) == CHOOSE x \in S : \A y \in S : x <= y

RECURSIVE Ordenado(_)
\* The elements of a finite set of integers in ascending order (primary-key order).
Ordenado(S) == IF S = {} THEN <<>> ELSE <<Min(S)>> \o Ordenado(S \ {Min(S)})

\* date.isoweekday() of a day number: 1 = Monday .. 7 = Sunday.
isoweekday(dia) == ((dia - 1) % 7) + 1

\* Python truthiness of an Optional[int] and of an Optional[str] column.
TruthyInt(x) == x # NULL
TruthyStr(x) == x # NullStr /\ x # ""

\* ---------------------------------------------------------------- text
\* A text the code inspects character by character is a sequence of one-character
\* strings.  Text("ab") is written <<"a", "b">>.
Brancos == {" ", "\t", "\n", "\r"}

\* str.lower(), and the removal of diacritics of _normalizar_texto, per character.
Minusculas ==
    ("A" :> "a") @@ ("B" :> "b") @@ ("C" :> "c") @@ ("D" :> "d") @@ ("E" :> "e")
 @@ ("F" :> "f") @@ ("G" :> "g") @@ ("H" :> "h") @@ ("I" :> "i") @@ ("J" :> "j")
 @@ ("L" :> "l") @@ ("M" :> "m") @@ ("N" :> "n") @@ ("O" :> "o") @@ ("P" :> "p")
 @@ ("R" :> "r") @@ ("S" :> "s") @@ ("T" :> "t") @@ ("U" :> "u") @@ ("V" :> "v") @@ ("X" :> "x")
 @@ ("Z" :> "z") @@ ("Í" :> "í")

lower(s) == [k \in 1..Len(s) |-> IF s[k] \in DOMAIN Minusculas THEN Minusculas[s[k]] ELSE s[k]]

RECURSIVE lstrip(_)
lstrip(s) == IF s # << >> /\ Head(s) \in Brancos THEN lstrip(Tail(s)) ELSE s

RECURSIVE rstrip(_)
rstrip(s) ==
    IF s # << >> /\ s[Len(s)] \in Brancos THEN rstrip(SubSeq(s, 1, Len(s) - 1)) ELSE s

\* str.strip()
strip(s) == rstrip(lstrip(s))

\* str.startswith(prefix)
startswith(s, prefix) ==
    Len(prefix) <= Len(s) /\ SubSeq(s, 1, Len(prefix)) = prefix

\* os.getenv(name, default): the variable is [definida |-> FALSE] when unset.
getenv(env, default) == IF env.definida THEN env.valor ELSE default

\* ---------------------------------------------------------------- configuration
\* The environment variable CONTRATO_ITEM_FALLBACK_STRATEGY of the deployment: unset.
CONTRATO_ITEM_FALLBACK_STRATEGY == [definida |-> FALSE]

\* _carregar_regras_bloqueio() on the default AUTO_AUDIT_BLOCK_WINDOWS
\* "102.7|1-5|11:00-14:00|obs_video".
carregar_regras_bloqueio ==
    << [frequencia |-> "102.7", dias |-> 1..5, inicio |-> 11, fim |-> 14,
        motivo |-> "obs_video"] >>

\* ---------------------------------------------------------------- service: pure parts
\* contrato.itens: the item ids of a contract, in primary-key order.
ItensDoContrato(its, c) == Ordenado({i \in DOMAIN its : its[i].contrato_id = c})

\* The resolver without its single-item rule (lines 31-32 removed).
ResolverItemSemItemUnico(its, c, tipo_programa, env) ==
    LET lista == ItensDoContrato(its, c)
        exatos == {k \in 1..Len(lista) : its[lista[k]].tipo_programa = tipo_programa}
        fallback == lower(strip(getenv(env, <<"f", "i", "r", "s", "t">>)))
    IN  IF lista = <<>> THEN NULL
        ELSE IF TruthyStr(tipo_programa) /\ exatos # {} THEN lista[Min(exatos)]
        ELSE IF fallback = <<"f", "i", "r", "s", "t">> THEN lista[1]
        ELSE NULL

\* resolver_item_contrato_para_veiculacao under a given value of the environment
\* variable CONTRATO_ITEM_FALLBACK_STRATEGY: item id, or NULL.
ResolverItem(its, c, tipo_programa, env) ==
    LET lista == ItensDoContrato(its, c)
        exatos == {k \in 1..Len(lista) : its[lista[k]].tipo_programa = tipo_programa}
        fallback == lower(strip(getenv(env, <<"f", "i", "r", "s", "t">>)))
    IN  IF lista = <<>> THEN NULL
        ELSE IF TruthyStr(tipo_programa) /\ exatos # {} THEN lista[Min(exatos)]
        ELSE IF Len(lista) = 1 THEN lista[1]
        ELSE IF fallback = <<"f", "i", "r", "s", "t">> THEN lista[1]
        ELSE NULL

\* resolver_item_contrato_para_veiculacao: item id, or NULL.
resolver_item_contrato_para_veiculacao(its, c, tipo_programa) ==
    ResolverItem(its, c, tipo_programa, CONTRATO_ITEM_FALLBACK_STRATEGY)

\* buscar_item_contabilizado: item id, or NULL.
buscar_item_contabilizado(cts, its, v) ==
    IF ~TruthyInt(v.contrato_id) THEN NULL
    ELSE IF v.contrato_id \notin DOMAIN cts THEN NULL
    ELSE resolver_item_contrato_para_veiculacao(its, v.contrato_id, v.tipo_programa)

\* "No row" answer of a quota query.
SemMeta == <<0, 0>>

\* The active quota row of (contract, file): its key, or SemMeta.
MetaAtiva(mts, c, a) ==
    IF <<c, a>> \in DOMAIN mts /\ mts[<<c, a>>].ativo THEN <<c, a>> ELSE SemMeta

\* buscar_meta_contabilizada: key of the quota row, or SemMeta.
buscar_meta_contabilizada(mts, v) ==
    IF ~TruthyInt(v.contrato_id) THEN SemMeta
    ELSE MetaAtiva(mts, v.contrato_id, v.arquivo_audio_id)

\* _auditoria_automatica_bloqueada: the reason of the first matching rule, or NullStr.
RECURSIVE PrimeiraRegra(_, _)
PrimeiraRegra(regras, v) ==
    IF regras = <<>> THEN NullStr
    ELSE LET regra == Head(regras)
         IN  IF /\ regra.frequencia = v.frequencia
                /\ isoweekday(v.data_hora.dia) \in regra.dias
                /\ regra.inicio <= v.data_hora.hora
                /\ v.data_hora.hora < regra.fim
             THEN regra.motivo
             ELSE PrimeiraRegra(Tail(regras), v)

auditoria_automatica_bloqueada(v) ==
    IF v.fonte # "zara_log" THEN NullStr
    ELSE IF ~TruthyStr(v.frequencia) THEN NullStr
    ELSE PrimeiraRegra(carregar_regras_bloqueio, v)

\* The contract query of the service (client, status, validity, frequency), .first().
ContratoDoServico(cts, v) ==
    LET d == v.data_hora.dia
        ok == {c \in DOMAIN cts :
                 /\ cts[c].cliente_id = ClienteDoArquivo(v.arquivo_audio_id)
                 /\ cts[c].status_contrato = "ativo"
                 /\ cts[c].data_inicio <= d
                 /\ (cts[c].data_fim = NULL \/ cts[c].data_fim >= d)
                 /\ (TruthyStr(v.frequencia) =>
                        \/ cts[c].frequencia = v.frequencia
                        \/ cts[c].frequencia = "ambas"
                        \/ cts[c].frequencia = NullStr)}
    IN  IF ok = {} THEN NULL ELSE Min(ok)

\* The contract query of the endpoint POST /veiculacoes/processar, .first().
\* A NULL data_fim makes "data_fim >= d" unknown, so the row is not selected.
ContratoDoEndpoint(cts, v) ==
    LET d == v.data_hora.dia
        ok == {c \in DOMAIN cts :
                 /\ cts[c].cliente_id = ClienteDoArquivo(v.arquivo_audio_id)
                 /\ cts[c].status_contrato = "ativo"
                 /\ cts[c].data_inicio <= d
                 /\ cts[c].data_fim # NULL
                 /\ cts[c].data_fim >= d}
    IN  IF ok = {} THEN NULL ELSE Min(ok)

\* ---------------------------------------------------------------- service: the pass
\* The selection without its filter on processado (lines 177-178 removed).
SelecionadasSemFiltro(veics, data_inicio, data_fim, force) ==
    {id \in DOMAIN veics :
        /\ data_inicio <= veics[id].data_hora.dia
        /\ veics[id].data_hora.dia <= data_fim}

\* The selection without the upper end of its range.
SelecionadasDesdeOInicio(veics, data_inicio, data_fim, force) ==
    {id \in DOMAIN veics :
        /\ data_inicio <= veics[id].data_hora.dia
        /\ (~force => ~veics[id].processado)}

\* The rows selected by a pass over [data_inicio 00:00, data_fim 23:59:59.999999].
Selecionadas(veics, data_inicio, data_fim, force) ==
    {id \in DOMAIN veics :
        /\ data_inicio <= veics[id].data_hora.dia
        /\ veics[id].data_hora.dia <= data_fim
        /\ (~force => ~veics[id].processado)}

\* A reversal that decrements the counter it finds, whatever its value.
ReverterSemPiso(st, id) ==
    LET v == st.veics[id]
        meta_anterior == buscar_meta_contabilizada(st.mts, v)
        item_anterior == buscar_item_contabilizado(st.cts, st.its, v)
    IN  IF meta_anterior # SemMeta
        THEN [st EXCEPT !.mts[meta_anterior].quantidade_executada = @ - 1]
        ELSE IF item_anterior # NULL
        THEN [st EXCEPT !.its[item_anterior].quantidade_executada = @ - 1]
        ELSE st

\* Lines 192-199: the reversal of the prior credit of a force pass.
ReverterCredito(st, id) ==
    LET v == st.veics[id]
        meta_anterior == buscar_meta_contabilizada(st.mts, v)
        item_anterior == buscar_item_contabilizado(st.cts, st.its, v)
    IN  IF meta_anterior # SemMeta /\ st.mts[meta_anterior].quantidade_executada > 0
        THEN [st EXCEPT !.mts[meta_anterior].quantidade_executada = @ - 1]
        ELSE IF item_anterior # NULL /\ st.its[item_anterior].quantidade_executada > 0
        THEN [st EXCEPT !.its[item_anterior].quantidade_executada = @ - 1]
        ELSE st

\* Lines 190-268: the body of the loop for one selected row.
ProcessarUmaServico(st, id, force) ==
    LET v0 == st.veics[id]
        st1 == IF force /\ v0.processado /\ v0.contabilizada
               THEN ReverterCredito(st, id) ELSE st
        v == st1.veics[id]
    IN  IF v.arquivo_audio_id = NULL
        THEN [st1 EXCEPT !.erros = @ + 1]
        ELSE
        LET contrato == ContratoDoServico(st1.cts, v)
            bloqueio == auditoria_automatica_bloqueada(v)
            meta == MetaAtiva(st1.mts, contrato, v.arquivo_audio_id)
            item == resolver_item_contrato_para_veiculacao(st1.its, contrato, v.tipo_programa)
        IN  IF contrato = NULL
            THEN [st1 EXCEPT !.veics[id].processado = TRUE,
                             !.veics[id].contabilizada = FALSE,
                             !.veics[id].contrato_id = NULL,
                             !.cred[id] = SemCredito,
                             !.processadas = @ + 1]
            ELSE IF bloqueio # NullStr
            THEN [st1 EXCEPT !.veics[id].processado = TRUE,
                             !.veics[id].contabilizada = FALSE,
                             !.veics[id].contrato_id = contrato,
                             !.cred[id] = SemCredito,
                             !.processadas = @ + 1]
            ELSE IF meta # SemMeta
            THEN [st1 EXCEPT !.mts[meta].quantidade_executada = @ + 1,
                             !.veics[id].processado = TRUE,
                             !.veics[id].contabilizada = TRUE,
                             !.veics[id].contrato_id = contrato,
                             !.cred[id] = ContadorMeta(meta[1], meta[2]),
                             !.processadas = @ + 1]
            ELSE IF item # NULL
            THEN [st1 EXCEPT !.its[item].quantidade_executada = @ + 1,
                             !.veics[id].processado = TRUE,
                             !.veics[id].contabilizada = TRUE,
                             !.veics[id].contrato_id = contrato,
                             !.cred[id] = ContadorItem(item),
                             !.processadas = @ + 1]
            ELSE [st1 EXCEPT !.veics[id].processado = TRUE,
                             !.veics[id].contabilizada = FALSE,
                             !.veics[id].contrato_id = contrato,
                             !.cred[id] = SemCredito,
                             !.processadas = @ + 1]

\* Lines 267-268: the evaluation of row id raised.  A statement that can raise
\* (a query, the loading of the rules) comes before every mutation of the body
\* except the reversal of lines 192-199, so the session holds the state before the
\* reversal (ponto "antes") or after it (ponto "depois").
ExcecaoNoServico(st, id, force, ponto) ==
    LET v0 == st.veics[id]
        st1 == IF ponto = "depois" /\ force /\ v0.processado /\ v0.contabilizada
               THEN ReverterCredito(st, id) ELSE st
    IN  [st1 EXCEPT !.erros = @ + 1]

\* The loop in which the first exception ends the pass (no try around the body).
RECURSIVE ProcessarListaServicoAbortando(_, _, _, _)
ProcessarListaServicoAbortando(st, ids, force, falham) ==
    IF ids = <<>> THEN st
    ELSE IF Head(ids) \in DOMAIN falham
    THEN ExcecaoNoServico(st, Head(ids), force, falham[Head(ids)])
    ELSE ProcessarListaServicoAbortando(ProcessarUmaServico(st, Head(ids), force),
                                        Tail(ids), force, falham)

\* Lines 190-268: the loop over the selected rows; falham maps the rows whose
\* evaluation raises to the point where it does.
RECURSIVE ProcessarListaServicoComFalhas(_, _, _, _)
ProcessarListaServicoComFalhas(st, ids, force, falham) ==
    IF ids = <<>> THEN st
    ELSE ProcessarListaServicoComFalhas(
             IF Head(ids) \in DOMAIN falham
             THEN ExcecaoNoServico(st, Head(ids), force, falham[Head(ids)])
             ELSE ProcessarUmaServico(st, Head(ids), force),
             Tail(ids), force, falham)

\* The loop when no evaluation raises.
ProcessarListaServico(st, ids, force) ==
    ProcessarListaServicoComFalhas(st, ids, force, << >>)

\* The session state a pass starts from.
EstadoDoPasso(veics, cts, its, mts, cred) ==
    [veics |-> veics, cts |-> cts, its |-> its, mts |-> mts, cred |-> cred,
     processadas |-> 0, erros |-> 0]

\* processar_veiculacoes_periodo: the state at db.commit().
processar_veiculacoes_periodo(veics, cts, its, mts, cred, data_inicio, data_fim, force) ==
    ProcessarListaServico(EstadoDoPasso(veics, cts, its, mts, cred),
                          Ordenado(Selecionadas(veics, data_inicio, data_fim, force)),
                          force)

\* ---------------------------------------------------------------- endpoint: the pass
\* POST /veiculacoes/processar, lines 326-374: the body of the loop for one row.
\* The endpoint never writes contabilizada and never reverses a prior credit.
ProcessarUmaEndpoint(st, id) ==
    LET v == st.veics[id]
    IN  IF v.arquivo_audio_id = NULL
        THEN [st EXCEPT !.erros = @ + 1]
        ELSE
        LET contrato == ContratoDoEndpoint(st.cts, v)
            lista == ItensDoContrato(st.its, contrato)
            exatos == {k \in 1..Len(lista) : st.its[lista[k]].tipo_programa = v.tipo_programa}
            item == IF TruthyStr(v.tipo_programa) /\ exatos # {} THEN lista[Min(exatos)]
                    ELSE IF lista # <<>> THEN lista[1]
                    ELSE NULL
        IN  IF contrato = NULL
            THEN [st EXCEPT !.veics[id].processado = TRUE,
                            !.veics[id].contrato_id = NULL,
                            !.processadas = @ + 1]
            ELSE IF item # NULL
            THEN [st EXCEPT !.its[item].quantidade_executada = @ + 1,
                            !.veics[id].processado = TRUE,
                            !.veics[id].contrato_id = contrato,
                            !.cred[id] = ContadorItem(item),
                            !.processadas = @ + 1]
            ELSE [st EXCEPT !.veics[id].processado = TRUE,
                            !.veics[id].contrato_id = contrato,
                            !.processadas = @ + 1]

\* Lines 372-374: the evaluation of row id raised, before any mutation of the body.
ExcecaoNoEndpoint(st, id) == [st EXCEPT !.erros = @ + 1]

\* Lines 326-374: the loop over the selected rows; falham is the set of rows whose
\* evaluation raises.
RECURSIVE ProcessarListaEndpointComFalhas(_, _, _)
ProcessarListaEndpointComFalhas(st, ids, falham) ==
    IF ids = <<>> THEN st
    ELSE ProcessarListaEndpointComFalhas(
             IF Head(ids) \in falham
             THEN ExcecaoNoEndpoint(st, Head(ids))
             ELSE ProcessarUmaEndpoint(st, Head(ids)),
             Tail(ids), falham)

\* The loop when no evaluation raises.
ProcessarListaEndpoint(st, ids) == ProcessarListaEndpointComFalhas(st, ids, {})

\* processar_veiculacoes (the endpoint): the state at db.commit().
processar_veiculacoes(veics, cts, its, mts, cred, data_inicio, data_fim, force) ==
    ProcessarListaEndpoint(EstadoDoPasso(veics, cts, its, mts, cred),
                           Ordenado(Selecionadas(veics, data_inicio, data_fim, force)))

\* ---------------------------------------------------------------- limits
\* Every counter of the state of a pass is within the cap of the model.
DentroDoLimite(st) ==
    /\ \A i \in DOMAIN st.its : st.its[i].quantidade_executada <= MaxExecutada
    /\ \A m \in DOMAIN st.mts : st.mts[m].quantidade_executada <= MaxExecutada

\* ---------------------------------------------------------------- the unique index
\* uq_veiculacoes_evento ON (arquivo_audio_id, data_hora, IFNULL(frequencia, '')):
\* rows with a NULL arquivo_audio_id never collide.
ViolaIndiceUnico(veics, linha) ==
    /\ linha.arquivo_audio_id # NULL
    /\ \E id \in DOMAIN veics :
          /\ veics[id].arquivo_audio_id = linha.arquivo_audio_id
          /\ veics[id].data_hora = linha.data_hora
          /\ veics[id].frequencia = linha.frequencia

\* models.Veiculacao(**payload): the column defaults are processado = False and
\* contabilizada = True.
NovaLinha(p) ==
    [arquivo_audio_id |-> p.arquivo_audio_id,
     nome_arquivo_raw |-> IF "nome_arquivo_raw" \in DOMAIN p THEN p.nome_arquivo_raw
                          ELSE NullStr,
     contrato_id |-> NULL,
     data_hora |-> p.data_hora,
     frequencia |-> p.frequencia,
     tipo_programa |-> p.tipo_programa,
     fonte |-> p.fonte,
     processado |-> FALSE,
     contabilizada |-> TRUE]

\* criar_veiculacao: the HTTP status of the request and the table after it.
\* 404 for an unregistered file; a duplicate key fails db.commit() with an
\* IntegrityError that nothing catches (500); otherwise the row is inserted (201).
criar_veiculacao(veics, prox, p) ==
    IF p.arquivo_audio_id \notin ArquivoIds
    THEN [status |-> 404, id |-> NULL, veics |-> veics]
    ELSE IF ViolaIndiceUnico(veics, NovaLinha(p))
    THEN [status |-> 500, id |-> NULL, veics |-> veics]
    ELSE [status |-> 201, id |-> prox, veics |-> veics @@ (prox :> NovaLinha(p))]

\* deletar_veiculacao: 404, or the row is deleted and nothing else is written.
deletar_veiculacao(veics, its, mts, id) ==
    IF id \notin DOMAIN veics
    THEN [status |-> 404, veics |-> veics, its |-> its, mts |-> mts]
    ELSE [status |-> 200, veics |-> [k \in DOMAIN veics \ {id} |-> veics[k]],
          its |-> its, mts |-> mts]

\* The identity key of an event: (file id or raw basename, timestamp, frequency).
MesmaChave(linha, outra) ==
    /\ linha.arquivo_audio_id = outra.arquivo_audio_id
    /\ linha.nome_arquivo_raw = outra.nome_arquivo_raw
    /\ linha.data_hora = outra.data_hora
    /\ linha.frequencia = outra.frequencia

\* ingestao_veiculacoes_lote (POST /veiculacoes/ingest/lote): each item whose key
\* is stored counts as existing, every other item is inserted and counts as created.
RECURSIVE ingestao_veiculacoes_lote(_, _, _)
ingestao_veiculacoes_lote(r, lote, k) ==
    IF k > Len(lote) THEN r
    ELSE LET linha == NovaLinha(lote[k])
         IN  IF \E id \in DOMAIN r.veics : MesmaChave(r.veics[id], linha)
             THEN ingestao_veiculacoes_lote([r EXCEPT !.existentes = @ + 1], lote, k + 1)
             ELSE ingestao_veiculacoes_lote(
                      [r EXCEPT !.veics = @ @@ (r.prox :> linha),
                                !.prox = @ + 1,
                                !.criadas = @ + 1], lote, k + 1)

ResultadoDoLote(veics, prox, lote) ==
    ingestao_veiculacoes_lote(
        [veics |-> veics, prox |-> prox, criadas |-> 0, existentes |-> 0, falhas |-> 0],
        lote, 1)

\* ---------------------------------------------------------------- actions
Init ==
    /\ veiculacoes = << >>
    /\ proximoId = 1
    /\ \E freq4 \in {"ambas", NullStr} : contratos = ContratosIniciais(freq4)
    /\ itens = ItensIniciais
    /\ metas = << >>
    /\ credito = << >>
    /\ InitOutras

\* POST /veiculacoes/
CriarVeiculacao ==
    \E p \in Payloads \cup {Payload(ArquivoInexistente, 5, 10, NullStr, NullStr, "manual")} :
        LET r == criar_veiculacao(veiculacoes, proximoId, p)
        IN  /\ proximoId <= MaxVeiculacoes
            /\ veiculacoes' = r.veics
            /\ proximoId' = IF r.status = 201 THEN proximoId + 1 ELSE proximoId
            /\ credito' = IF r.status = 201 THEN credito @@ (proximoId :> SemCredito)
                          ELSE credito
            /\ UNCHANGED <<contratos, itens, metas, outras>>

\* DELETE /veiculacoes/{id}
DeletarVeiculacao ==
    \E id \in 1..MaxVeiculacoes :
        LET r == deletar_veiculacao(veiculacoes, itens, metas, id)
        IN  /\ veiculacoes' = r.veics
            /\ itens' = r.its
            /\ metas' = r.mts
            /\ credito' = [k \in DOMAIN r.veics |-> credito[k]]
            /\ UNCHANGED <<proximoId, contratos, outras>>

\* Ranges [data_inicio, data_fim] of a pass.
Periodos == {<<5, 5>>, <<5, 6>>}

\* POST /veiculacoes/processar (the endpoint's own loop).
ProcessarVeiculacoes ==
    \E per \in Periodos, force \in BOOLEAN :
        LET st == processar_veiculacoes(veiculacoes, contratos, itens, metas, credito,
                                        per[1], per[2], force)
        IN  /\ DentroDoLimite(st)
            /\ veiculacoes' = st.veics
            /\ itens' = st.its
            /\ metas' = st.mts
            /\ credito' = st.cred
            /\ UNCHANGED <<proximoId, contratos, outras>>

\* services.veiculacoes_service.processar_veiculacoes_periodo.
ProcessarVeiculacoesPeriodo ==
    \E per \in Periodos, force \in BOOLEAN :
        LET st == processar_veiculacoes_periodo(veiculacoes, contratos, itens, metas,
                                                credito, per[1], per[2], force)
        IN  /\ DentroDoLimite(st)
            /\ veiculacoes' = st.veics
            /\ itens' = st.its
            /\ metas' = st.mts
            /\ credito' = st.cred
            /\ UNCHANGED <<proximoId, contratos, outras>>

\* POST /contratos/{id}/arquivos-metas: 400 when the (contract, file) row exists.
CriarArquivoMetaContrato ==
    \E par \in ParesMeta, ativo \in BOOLEAN :
        /\ par[1] \in DOMAIN contratos
        /\ par[2] \in ArquivoIds
        /\ ClienteDoArquivo(par[2]) = contratos[par[1]].cliente_id
        /\ metas' = IF par \in DOMAIN metas THEN metas
                    ELSE metas @@ (par :> [ativo |-> ativo, quantidade_executada |-> 0])
        /\ UNCHANGED <<veiculacoes, proximoId, contratos, itens, credito, outras>>

\* PUT /contratos/{id}/arquivos-metas/{meta_id} setting ativo.
AtualizarArquivoMetaContrato ==
    \E par \in DOMAIN metas, ativo \in BOOLEAN :
        /\ metas' = [metas EXCEPT ![par].ativo = ativo]
        /\ UNCHANGED <<veiculacoes, proximoId, contratos, itens, credito, outras>>

\* DELETE /contratos/{id}/arquivos-metas/{meta_id}.
DeletarArquivoMetaContrato ==
    \E par \in DOMAIN metas :
        /\ metas' = [k \in DOMAIN metas \ {par} |-> metas[k]]
        /\ UNCHANGED <<veiculacoes, proximoId, contratos, itens, credito, outras>>

\* POST /veiculacoes/ingest/lote
IngestaoVeiculacoesLote ==
    \E lote \in Lotes :
        LET r == ResultadoDoLote(veiculacoes, proximoId, lote)
        IN  /\ r.prox <= MaxVeiculacoes + 1
            /\ veiculacoes' = r.veics
            /\ proximoId' = r.prox
            /\ credito' = [k \in DOMAIN r.veics |->
                              IF k \in DOMAIN credito THEN credito[k] ELSE SemCredito]
            /\ UNCHANGED <<contratos, itens, metas, outras>>

Next ==
    \/ CriarVeiculacao
    \/ IngestaoVeiculacoesLote
    \/ DeletarVeiculacao
    \/ ProcessarVeiculacoes
    \/ ProcessarVeiculacoesPeriodo
    \/ CriarArquivoMetaContrato
    \/ AtualizarArquivoMetaContrato
    \/ DeletarArquivoMetaContrato

Spec == Init /\ [][Next]_vars

\* Ingestion, reconciliation and deletion only: contracts, items and quotas are
\* as configured at the start, with or without an active quota for (3, 1).
InitVeiculacoes ==
    /\ veiculacoes = << >>
    /\ proximoId = 1
    /\ \E freq4 \in {"ambas", NullStr} : contratos = ContratosIniciais(freq4)
    /\ itens = ItensIniciais
    /\ metas \in { << >>, (<<3, 1>> :> [ativo |-> TRUE, quantidade_executada |-> 0]) }
    /\ credito = << >>
    /\ InitOutras

NextVeiculacoes ==
    \/ CriarVeiculacao
    \/ DeletarVeiculacao
    \/ ProcessarVeiculacoes
    \/ ProcessarVeiculacoesPeriodo

SpecVeiculacoes == InitVeiculacoes /\ [][NextVeiculacoes]_vars


\* The service as the only reconciliation, with the create, delete and quota
\* endpoints.
NextServico ==
    \/ CriarVeiculacao
    \/ DeletarVeiculacao
    \/ ProcessarVeiculacoesPeriodo
    \/ CriarArquivoMetaContrato
    \/ AtualizarArquivoMetaContrato
    \/ DeletarArquivoMetaContrato

SpecServico == Init /\ [][NextServico]_vars

\* ---------------------------------------------------------------- properties
\* The results of a reconcile pass over per, by the endpoint and by the service.
Passos(per, force) ==
    { processar_veiculacoes(veiculacoes, contratos, itens, metas, credito,
                            per[1], per[2], force),
      processar_veiculacoes_periodo(veiculacoes, contratos, itens, metas, credito,
                                    per[1], per[2], force) }

\* Event id is processed and accounted and its credit went to counter k.
Creditada(id, k) ==
    /\ veiculacoes[id].processado
    /\ veiculacoes[id].contabilizada
    /\ credito[id] = k

Um(b) == IF b THEN 1 ELSE 0

\* The contract a counter belongs to.
ContratoDoContador(k) == IF k[1] = "item" THEN itens[k[2]].contrato_id ELSE k[2]

\* A contract's frequency scope admits the frequency of an event.
EscopoAdmite(c, frequencia) ==
    contratos[c].frequencia \in {frequencia, "ambas", NullStr}

\* Client, status and validity of contract c fit event row v.
Vigente(c, v) ==
    /\ contratos[c].cliente_id = ClienteDoArquivo(v.arquivo_audio_id)
    /\ contratos[c].status_contrato = "ativo"
    /\ contratos[c].data_inicio <= v.data_hora.dia
    /\ (contratos[c].data_fim = NULL \/ contratos[c].data_fim >= v.data_hora.dia)

\* The contracts step 2 of the reconciliation admits for event row v.
Elegiveis(v) ==
    {c \in DOMAIN contratos :
        Vigente(c, v) /\ (TruthyStr(v.frequencia) => EscopoAdmite(c, v.frequencia))}

\* C1: after any sequence of ingest, reconcile and delete operations, the executed
\* value of every counter (item or file quota) equals the number of stored events
\* that are processed and accounted and whose credit went to that counter.
C1_ContadoresExatos ==
    /\ \A i \in DOMAIN itens :
          itens[i].quantidade_executada =
              Cardinality({id \in DOMAIN veiculacoes : Creditada(id, ContadorItem(i))})
    /\ \A m \in DOMAIN metas :
          metas[m].quantidade_executada =
              Cardinality({id \in DOMAIN veiculacoes : Creditada(id, ContadorMeta(m[1], m[2]))})

\* C2: the store holds at most one event per identity key; a create-or-confirm whose
\* key is stored inserts nothing, returns the stored event and reports it as
\* existing (200, not 201); a bulk call reports every item as created or existing,
\* two identical new items giving created = 1 and existing = 1.
C2_IngestaoIdempotente ==
    /\ \A a, b \in DOMAIN veiculacoes :
          MesmaChave(veiculacoes[a], veiculacoes[b]) => a = b
    /\ \A p \in Payloads :
          LET r == criar_veiculacao(veiculacoes, proximoId, p)
          IN  (\E id \in DOMAIN veiculacoes : MesmaChave(veiculacoes[id], NovaLinha(p)))
              => /\ r.veics = veiculacoes
                 /\ r.status = 200
                 /\ r.id \in DOMAIN veiculacoes
                 /\ MesmaChave(veiculacoes[r.id], NovaLinha(p))
    /\ \A lote \in Lotes :
          LET r == ResultadoDoLote(veiculacoes, proximoId, lote)
          IN  /\ r.criadas + r.existentes = Len(lote)
              /\ r.falhas = 0
              /\ Cardinality(DOMAIN r.veics) = Cardinality(DOMAIN veiculacoes) + r.criadas
              /\ (/\ Len(lote) = 2
                  /\ lote[1] = lote[2]
                  /\ ~\E id \in DOMAIN veiculacoes :
                        MesmaChave(veiculacoes[id], NovaLinha(lote[1])))
                 => (r.criadas = 1 /\ r.existentes = 1)

\* C3: a pass without force over a range whose events are all processed changes no
\* event and no counter; a pass with force over such a range, the contracts, items,
\* quotas and rules being those the events were credited under, leaves every
\* counter with the value it had.
C3_ReprocessamentoNeutro ==
    \A per \in Periodos :
        (\A id \in Selecionadas(veiculacoes, per[1], per[2], TRUE) :
            veiculacoes[id].processado)
        => /\ \A st \in Passos(per, FALSE) :
                 st.veics = veiculacoes /\ st.its = itens /\ st.mts = metas
           /\ \A st \in Passos(per, TRUE) :
                 /\ \A i \in DOMAIN itens :
                       st.its[i].quantidade_executada = itens[i].quantidade_executada
                 /\ \A m \in DOMAIN metas :
                       st.mts[m].quantidade_executada = metas[m].quantidade_executada

\* C4: deleting an event that is processed and accounted decrements by one the
\* counter the event had credited and changes no other counter; deleting any other
\* event changes no counter.
C4_DelecaoReverteCredito ==
    \A id \in DOMAIN veiculacoes :
        LET r == deletar_veiculacao(veiculacoes, itens, metas, id)
        IN  /\ \A i \in DOMAIN itens :
                  r.its[i].quantidade_executada =
                      itens[i].quantidade_executada - Um(Creditada(id, ContadorItem(i)))
            /\ \A m \in DOMAIN metas :
                  r.mts[m].quantidade_executada =
                      metas[m].quantidade_executada
                          - Um(Creditada(id, ContadorMeta(m[1], m[2])))

\* C5: when a force pass re-evaluates an accounted event, the reversal decrements by
\* one the counter the original processing incremented, and no other counter,
\* whatever happened to the contract's quotas in between.
C5_EstornoNoContadorCreditado ==
    \A id \in DOMAIN veiculacoes :
        (/\ veiculacoes[id].processado
         /\ veiculacoes[id].contabilizada
         /\ credito[id] # SemCredito
         /\ (credito[id][1] = "meta" => <<credito[id][2], credito[id][3]>> \in DOMAIN metas))
        => LET st == ReverterCredito(
                         EstadoDoPasso(veiculacoes, contratos, itens, metas, credito), id)
           IN  /\ \A i \in DOMAIN itens :
                     st.its[i].quantidade_executada =
                         itens[i].quantidade_executada - Um(credito[id] = ContadorItem(i))
               /\ \A m \in DOMAIN metas :
                     st.mts[m].quantidade_executada =
                         metas[m].quantidade_executada
                             - Um(credito[id] = ContadorMeta(m[1], m[2]))

\* C6: an event that carries a frequency is linked to, and credits, only a contract
\* whose frequency scope is the event's frequency, 'ambas' or unset.
C6_FrequenciaDoContrato ==
    \A id \in DOMAIN veiculacoes :
        (veiculacoes[id].processado /\ TruthyStr(veiculacoes[id].frequencia))
        => /\ veiculacoes[id].contrato_id # NULL
                 => EscopoAdmite(veiculacoes[id].contrato_id, veiculacoes[id].frequencia)
           /\ credito[id] # SemCredito
                 => EscopoAdmite(ContratoDoContador(credito[id]), veiculacoes[id].frequencia)

\* C7: the contract a pass links to an event is of the client of the event's file,
\* active, started on or before the event's date and ended on or after it or
\* open-ended; and an event for which such a contract exists is linked to one, so
\* an open-ended contract is used for any date on or after its start.
C7_ContratoVigente ==
    \A id \in DOMAIN veiculacoes :
        (veiculacoes[id].processado /\ veiculacoes[id].arquivo_audio_id # NULL)
        => /\ veiculacoes[id].contrato_id # NULL
                 => Vigente(veiculacoes[id].contrato_id, veiculacoes[id])
           /\ Elegiveis(veiculacoes[id]) # {}
                 => veiculacoes[id].contrato_id # NULL

\* The event row falls in an exemption rule: frequency, weekday and time window.
NaJanela(v) == PrimeiraRegra(carregar_regras_bloqueio, v) # NullStr

\* C8: of the events that fall inside an exemption window and have a contract, the
\* automatically sourced ones are not credited and the manually sourced ones are.
C8_IsencaoSoAutomatica ==
    \A id \in DOMAIN veiculacoes :
        (/\ veiculacoes[id].processado
         /\ veiculacoes[id].arquivo_audio_id # NULL
         /\ NaJanela(veiculacoes[id])
         /\ Elegiveis(veiculacoes[id]) # {})
        => IF veiculacoes[id].fonte = "zara_log"
           THEN ~veiculacoes[id].contabilizada /\ credito[id] = SemCredito
           ELSE veiculacoes[id].contabilizada /\ credito[id] # SemCredito

\* The reason code is stored on the event row.
MotivoRegistrado(linha, motivo) ==
    /\ "motivo_nao_contabilizada" \in DOMAIN linha
    /\ linha.motivo_nao_contabilizada = motivo

\* C9: a pass of the service leaves an automatic event that has a matching contract
\* and falls in an exemption rule processed, not accounted, linked to that
\* contract, with the rule's reason recorded on it, and credits nothing for it.
C9_IsencaoRegistrada ==
    \A per \in Periodos, force \in BOOLEAN :
        LET st == processar_veiculacoes_periodo(veiculacoes, contratos, itens, metas,
                                                credito, per[1], per[2], force)
        IN  \A id \in Selecionadas(veiculacoes, per[1], per[2], force) :
                LET v == veiculacoes[id]
                IN  (/\ v.arquivo_audio_id # NULL
                     /\ v.fonte = "zara_log"
                     /\ NaJanela(v)
                     /\ ContratoDoServico(contratos, v) # NULL)
                    => /\ st.veics[id].processado
                       /\ ~st.veics[id].contabilizada
                       /\ st.veics[id].contrato_id = ContratoDoServico(contratos, v)
                       /\ st.cred[id] = SemCredito
                       /\ MotivoRegistrado(st.veics[id],
                                           PrimeiraRegra(carregar_regras_bloqueio, v))

\* What a pass without force over per credited, event by event and counter by
\* counter: the active quota of (linked contract, file) when there is one,
\* otherwise an item of the linked contract.
MetaTemPrecedencia(st, per) ==
    LET sel == Selecionadas(veiculacoes, per[1], per[2], FALSE)
    IN  /\ \A id \in sel :
              LET c == st.veics[id].contrato_id
                  meta == MetaAtiva(metas, c, veiculacoes[id].arquivo_audio_id)
              IN  st.cred[id] # SemCredito
                  => IF meta # SemMeta
                     THEN st.cred[id] = ContadorMeta(meta[1], meta[2])
                     ELSE /\ st.cred[id][1] = "item"
                          /\ itens[st.cred[id][2]].contrato_id = c
        /\ \A i \in DOMAIN itens :
              st.its[i].quantidade_executada =
                  itens[i].quantidade_executada
                      + Cardinality({id \in sel : st.cred[id] = ContadorItem(i)})
        /\ \A m \in DOMAIN metas :
              st.mts[m].quantidade_executada =
                  metas[m].quantidade_executada
                      + Cardinality({id \in sel : st.cred[id] = ContadorMeta(m[1], m[2])})

\* C10: when the resolved contract has an active quota for the event's file, the
\* credit increments that quota and leaves every item counter unchanged; an item
\* is incremented only when there is no such quota.
C10_MetaTemPrecedencia ==
    \A per \in Periodos : \A st \in Passos(per, FALSE) : MetaTemPrecedencia(st, per)

\* The same, of the service function alone.
MetaTemPrecedenciaNoServico ==
    \A per \in Periodos :
        MetaTemPrecedencia(
            processar_veiculacoes_periodo(veiculacoes, contratos, itens, metas, credito,
                                          per[1], per[2], FALSE), per)


\* ---------------------------------------------------------------- item resolution
\* The backend's tables with no event stored.
InitBackend ==
    /\ veiculacoes = << >>
    /\ proximoId = 1
    /\ contratos = ContratosIniciais("ambas")
    /\ itens = ItensIniciais
    /\ metas = << >>
    /\ credito = << >>

\* Most items of the contract handed to the resolver.
MaxItens == 3

\* The items of contract 1, by primary key, from the sequence of their program types.
ItensDeTipos(tipos) ==
    [i \in 1..Len(tipos) |->
        [contrato_id |-> 1, tipo_programa |-> tipos[i], quantidade_executada |-> 0]]

TabelasDeItens ==
    { ItensDeTipos(tipos) :
        tipos \in UNION { [1..n -> {"musical", "esporte"}] : n \in 0..MaxItens } }

\* Values of the environment variable CONTRATO_ITEM_FALLBACK_STRATEGY.
Ambientes ==
    { [definida |-> FALSE],
      [definida |-> TRUE, valor |-> <<"f", "i", "r", "s", "t">>],
      [definida |-> TRUE, valor |-> <<" ", "F", "i", "r", "s", "t", " ">>],
      [definida |-> TRUE, valor |-> <<"F", "I", "R", "S", "T">>],
      [definida |-> TRUE, valor |-> <<"n", "o", "n", "e">>],
      [definida |-> TRUE, valor |-> << >>] }

EntradasResolver ==
    [itens : TabelasDeItens,
     tipo_programa : {NullStr, "", "musical", "esporte", "jornal"},
     env : Ambientes]

InitResolver ==
    /\ InitBackend
    /\ entrada \in EntradasResolver
    /\ saida = << >>
    /\ passo = [ativo |-> FALSE]
    /\ monitor = MonitorInicial
    /\ watch = WatchInicial

\* A call of resolver_item_contrato_para_veiculacao(contrato, tipo_programa).
ResolverItemContrato ==
    /\ saida = << >>
    /\ saida' = <<ResolverItem(entrada.itens, 1, entrada.tipo_programa, entrada.env)>>
    /\ UNCHANGED <<veiculacoes, proximoId, contratos, itens, metas, credito, entrada, passo, monitor, watch>>

NextResolver == ResolverItemContrato

SpecResolver == InitResolver /\ [][NextResolver]_vars

\* The fallback policy in force is 'first': the variable is unset, or set to
\* 'first' in any case and with any surrounding blanks.
PoliticaFirst(env) ==
    \/ ~env.definida
    \/ env.valor \in { <<"f", "i", "r", "s", "t">>,
                       <<" ", "F", "i", "r", "s", "t", " ">>,
                       <<"F", "I", "R", "S", "T">> }

\* The items of the call whose program type is the event's, when it carries one.
ItensDoTipo ==
    IF entrada.tipo_programa \in {NullStr, ""} THEN {}
    ELSE {i \in DOMAIN entrada.itens :
             entrada.itens[i].tipo_programa = entrada.tipo_programa}

\* C11: item resolution returns the (first) item of the event's program type when
\* the event carries a type and such an item exists; otherwise the only item of a
\* one-item contract; otherwise the first item under the policy 'first' and no
\* item under any other policy; and no item when the contract has none.
C11_ResolucaoDeItem ==
    saida # << >> =>
        LET n == Cardinality(DOMAIN entrada.itens)
            r == saida[1]
        IN  /\ n = 0 => r = NULL
            /\ ItensDoTipo # {} => r \in ItensDoTipo /\ \A j \in ItensDoTipo : r <= j
            /\ (ItensDoTipo = {} /\ n = 1) => r = 1
            /\ (ItensDoTipo = {} /\ n > 1) =>
                   r = IF PoliticaFirst(entrada.env) THEN 1 ELSE NULL

\* A one-item contract, an event of another type and a policy other than 'first':
\* the only item is returned.
C11_ItemUnicoSemPolitica ==
    /\ saida = <<1>>
    /\ Cardinality(DOMAIN entrada.itens) = 1
    /\ entrada.tipo_programa = "jornal"
    /\ ~PoliticaFirst(entrada.env)


\* ---------------------------------------------------------------- no contract, no counter
\* Tables in which both contracts of client 1 are scoped to 104.7, so that a 102.7
\* event has no contract, and in which contract 3 has neither item nor quota, so
\* that an event resolved to it has no counter.
InitSemContador ==
    /\ veiculacoes = << >>
    /\ proximoId = 1
    /\ contratos = ContratosIniciais("104.7")
    /\ itens = [i \in {j \in DOMAIN ItensIniciais : ItensIniciais[j].contrato_id # 3}
                    |-> ItensIniciais[i]]
    /\ metas = << >>
    /\ credito = << >>
    /\ InitOutras

SpecSemContador == InitSemContador /\ [][NextVeiculacoes]_vars

\* What a pass without force over per made of the events that have no contract or
\* no counter: processed, not accounted, nothing credited, no link when there is
\* no contract; and the pass counts every event as processed and none as an error.
SemContratoOuContador(st, per) ==
    LET sel == Selecionadas(veiculacoes, per[1], per[2], FALSE)
        semContrato == {id \in sel : Elegiveis(veiculacoes[id]) = {}}
        semContador ==
            {id \in sel \ semContrato :
                /\ st.veics[id].contrato_id # NULL
                /\ ItensDoContrato(itens, st.veics[id].contrato_id) = << >>
                /\ MetaAtiva(metas, st.veics[id].contrato_id,
                             veiculacoes[id].arquivo_audio_id) = SemMeta}
    IN  /\ \A id \in semContrato \cup semContador :
              /\ st.veics[id].processado
              /\ ~st.veics[id].contabilizada
              /\ st.cred[id] = SemCredito
        /\ \A id \in semContrato : st.veics[id].contrato_id = NULL
        /\ sel = semContrato \cup semContador => (st.its = itens /\ st.mts = metas)
        /\ st.erros = 0
        /\ st.processadas = Cardinality(sel)

\* C12: an event for which no contract matches ends the pass processed, not
\* accounted and unlinked; an event whose contract has no counter to credit ends
\* processed and not accounted; no counter changes on their account and the pass
\* counts them as processed, not as errors.
C12_SemContratoOuContador ==
    \A per \in Periodos : \A st \in Passos(per, FALSE) : SemContratoOuContador(st, per)

\* The same, of the service function alone.
SemContratoOuContadorNoServico ==
    \A per \in Periodos :
        SemContratoOuContador(
            processar_veiculacoes_periodo(veiculacoes, contratos, itens, metas, credito,
                                          per[1], per[2], FALSE), per)

\* Both cases occur in one pass of the service: an event left unlinked and an event
\* linked to the contract without counters, neither accounted.
DoisCasosSemCredito ==
    \E a, b \in DOMAIN veiculacoes :
        /\ veiculacoes[a].processado /\ veiculacoes[a].contrato_id = NULL
        /\ ~veiculacoes[a].contabilizada
        /\ veiculacoes[b].processado /\ veiculacoes[b].contrato_id = 3
        /\ ~veiculacoes[b].contabilizada


\* ---------------------------------------------------------------- life of an event
\* The step is a pass with force, of the endpoint or of the service.
PassoForcado ==
    \E per \in Periodos : \E st \in Passos(per, TRUE) :
        /\ veiculacoes' = st.veics
        /\ itens' = st.its
        /\ metas' = st.mts
        /\ credito' = st.cred

\* The events the step takes from unprocessed to processed with a credit to k.
NovosCreditos(k) ==
    {id \in DOMAIN veiculacoes \cap DOMAIN veiculacoes' :
        /\ ~veiculacoes[id].processado
        /\ veiculacoes'[id].processado
        /\ credito'[id] = k}

PassoDaVidaDoEvento ==
    /\ \A id \in DOMAIN veiculacoes' \ DOMAIN veiculacoes : ~veiculacoes'[id].processado
    /\ \A id \in DOMAIN veiculacoes \cap DOMAIN veiculacoes' :
          veiculacoes[id].processado => veiculacoes'[id].processado
    /\ ~PassoForcado =>
          /\ \A id \in DOMAIN veiculacoes \cap DOMAIN veiculacoes' :
                veiculacoes[id].processado =>
                    (veiculacoes'[id] = veiculacoes[id] /\ credito'[id] = credito[id])
          /\ \A i \in DOMAIN itens :
                itens'[i].quantidade_executada =
                    itens[i].quantidade_executada
                        + Cardinality(NovosCreditos(ContadorItem(i)))
          /\ \A m \in DOMAIN metas :
                metas'[m].quantidade_executada =
                    metas[m].quantidade_executada
                        + Cardinality(NovosCreditos(ContadorMeta(m[1], m[2])))
    /\ ~(DOMAIN veiculacoes \subseteq DOMAIN veiculacoes') => DeletarVeiculacao

FalhasDoServico(sel) == UNION { [F -> {"antes", "depois"}] : F \in SUBSET sel }

\* processar_veiculacoes_periodo when the evaluations of DOMAIN falham raise.
PassoDoServicoComFalhas(per, force, falham) ==
    ProcessarListaServicoComFalhas(
        EstadoDoPasso(veiculacoes, contratos, itens, metas, credito),
        Ordenado(Selecionadas(veiculacoes, per[1], per[2], force)), force, falham)

\* processar_veiculacoes (the endpoint) when the evaluations of falham raise.
PassoDoEndpointComFalhas(per, force, falham) ==
    ProcessarListaEndpointComFalhas(
        EstadoDoPasso(veiculacoes, contratos, itens, metas, credito),
        Ordenado(Selecionadas(veiculacoes, per[1], per[2], force)), falham)

\* A pass of the service in which at least one evaluation raises.
ProcessarVeiculacoesPeriodoComExcecao ==
    \E per \in Periodos, force \in BOOLEAN :
        \E falham \in FalhasDoServico(Selecionadas(veiculacoes, per[1], per[2], force)) :
            LET st == PassoDoServicoComFalhas(per, force, falham)
            IN  /\ DOMAIN falham # {}
                /\ DentroDoLimite(st)
                /\ veiculacoes' = st.veics
                /\ itens' = st.its
                /\ metas' = st.mts
                /\ credito' = st.cred
                /\ UNCHANGED <<proximoId, contratos, outras>>

\* A pass of the endpoint in which at least one evaluation raises.
ProcessarVeiculacoesComExcecao ==
    \E per \in Periodos, force \in BOOLEAN :
        \E falham \in SUBSET Selecionadas(veiculacoes, per[1], per[2], force) :
            LET st == PassoDoEndpointComFalhas(per, force, falham)
            IN  /\ falham # {}
                /\ DentroDoLimite(st)
                /\ veiculacoes' = st.veics
                /\ itens' = st.its
                /\ metas' = st.mts
                /\ credito' = st.cred
                /\ UNCHANGED <<proximoId, contratos, outras>>

NextExcecoes ==
    \/ CriarVeiculacao
    \/ DeletarVeiculacao
    \/ ProcessarVeiculacoes
    \/ ProcessarVeiculacoesPeriodo
    \/ ProcessarVeiculacoesComExcecao
    \/ ProcessarVeiculacoesPeriodoComExcecao

SpecExcecoes == InitVeiculacoes /\ [][NextExcecoes]_vars

\* The summary and the rows of a pass over sel in which the rows of falhas raised:
\* each of them is an error and keeps its row, every other row is processed.
ExcecoesContidas(st, sel, falhas) ==
    /\ st.erros = Cardinality(falhas)
    /\ st.processadas = Cardinality(sel \ falhas)
    /\ \A id \in falhas : st.veics[id] = veiculacoes[id]
    /\ \A id \in sel \ falhas : st.veics[id].processado
    /\ DOMAIN st.veics = DOMAIN veiculacoes

\* C14: an exception raised while one event of a pass is evaluated is counted as
\* an error and does not end the pass: every other selected event is evaluated,
\* and the pass ends with its summary and one state to commit.
C14_ExcecoesContidas ==
    \A per \in Periodos, force \in BOOLEAN :
        LET sel == Selecionadas(veiculacoes, per[1], per[2], force)
        IN  /\ \A falham \in FalhasDoServico(sel) :
                  ExcecoesContidas(PassoDoServicoComFalhas(per, force, falham),
                                   sel, DOMAIN falham)
            /\ \A falham \in SUBSET sel :
                  ExcecoesContidas(PassoDoEndpointComFalhas(per, force, falham),
                                   sel, falham)

\* Two unprocessed events of the same day, the first of which can raise while the
\* second is still to be evaluated.
C14_DoisEventosPendentes ==
    /\ Cardinality(DOMAIN veiculacoes) = 2
    /\ \A id \in DOMAIN veiculacoes :
          ~veiculacoes[id].processado /\ veiculacoes[id].data_hora.dia = 5

\* What the state a pass of the service commits owes to the events of falham, whose
\* evaluation raised: each keeps its flags, its contract link and its credit, and
\* every counter has the value the same pass gives it over the other events alone.
ErroNaoContribui(per, force, falham) ==
    LET st == PassoDoServicoComFalhas(per, force, falham)
        outras_linhas == DOMAIN veiculacoes \ DOMAIN falham
        so == processar_veiculacoes_periodo(
                  [k \in outras_linhas |-> veiculacoes[k]], contratos, itens, metas,
                  [k \in outras_linhas |-> credito[k]], per[1], per[2], force)
    IN  /\ \A id \in DOMAIN falham :
              /\ st.veics[id] = veiculacoes[id]
              /\ st.cred[id] = credito[id]
        /\ st.its = so.its
        /\ st.mts = so.mts

\* C34: an event whose evaluation raises contributes nothing to the state the pass
\* commits: its flags and contract link are unchanged and no counter differs on
\* its account; in a force pass, the reversal applied to an accounted event is not
\* committed when its re-evaluation raises.
C34_ErroNaoContribui ==
    \A per \in Periodos, force \in BOOLEAN :
        \A falham \in FalhasDoServico(Selecionadas(veiculacoes, per[1], per[2], force)) :
            ErroNaoContribui(per, force, falham)


\* ---------------------------------------------------------------- a pass, step by step
\* What the database holds, and the same of the state of a session.
Persistido == <<veiculacoes, itens, metas, credito>>
DoEstado(st) == <<st.veics, st.its, st.mts, st.cred>>

\* A loop that commits after every row.
PersistidoComCommitPorEvento(db, st) == DoEstado(st)

\* What the database holds after the evaluation of one row when it held db and the
\* session holds st: the loop neither flushes (autoflush=False) nor commits.
PersistidoAposAvaliar(db, st) == db

\* The query of the pass (service 173-180, endpoint 307-314) opens the session.
IniciarPasso ==
    \E per \in Periodos, force \in BOOLEAN, servico \in BOOLEAN :
        /\ ~passo.ativo
        /\ DentroDoLimite(IF servico
                          THEN processar_veiculacoes_periodo(veiculacoes, contratos, itens,
                                   metas, credito, per[1], per[2], force)
                          ELSE processar_veiculacoes(veiculacoes, contratos, itens,
                                   metas, credito, per[1], per[2], force))
        /\ passo' = [ativo |-> TRUE, servico |-> servico, per |-> per, force |-> force,
                     inicio |-> Persistido,
                     st |-> EstadoDoPasso(veiculacoes, contratos, itens, metas, credito),
                     restantes |-> Ordenado(Selecionadas(veiculacoes, per[1], per[2], force))]
        /\ UNCHANGED <<veiculacoes, proximoId, contratos, itens, metas, credito,
                       entrada, saida, monitor, watch>>

\* One iteration of the loop: the row is evaluated in the session.
AvaliarEvento ==
    /\ passo.ativo
    /\ passo.restantes # << >>
    /\ LET st == IF passo.servico
                 THEN ProcessarUmaServico(passo.st, Head(passo.restantes), passo.force)
                 ELSE ProcessarUmaEndpoint(passo.st, Head(passo.restantes))
           db == PersistidoAposAvaliar(Persistido, st)
       IN  /\ passo' = [passo EXCEPT !.st = st, !.restantes = Tail(@)]
           /\ veiculacoes' = db[1]
           /\ itens' = db[2]
           /\ metas' = db[3]
           /\ credito' = db[4]
    /\ UNCHANGED <<proximoId, contratos, entrada, saida, monitor, watch>>

\* db.commit() after the loop (service 270, endpoint 377).
ConfirmarPasso ==
    /\ passo.ativo
    /\ passo.restantes = << >>
    /\ veiculacoes' = passo.st.veics
    /\ itens' = passo.st.its
    /\ metas' = passo.st.mts
    /\ credito' = passo.st.cred
    /\ passo' = [ativo |-> FALSE]
    /\ UNCHANGED <<proximoId, contratos, entrada, saida, monitor, watch>>

\* The process is terminated before db.commit(): the session is lost.
TerminarPasso ==
    /\ passo.ativo
    /\ passo' = [ativo |-> FALSE]
    /\ UNCHANGED <<veiculacoes, proximoId, contratos, itens, metas, credito,
                   entrada, saida, monitor, watch>>

CriarVeiculacaoForaDoPasso == ~passo.ativo /\ CriarVeiculacao

DeletarVeiculacaoForaDoPasso == ~passo.ativo /\ DeletarVeiculacao

NextPasso ==
    \/ CriarVeiculacaoForaDoPasso
    \/ DeletarVeiculacaoForaDoPasso
    \/ IniciarPasso
    \/ AvaliarEvento
    \/ ConfirmarPasso
    \/ TerminarPasso

SpecPasso == InitVeiculacoes /\ [][NextPasso]_vars

\* The state the pass p reaches, uninterrupted, from the database state db.
PassoAPartirDe(db, p) ==
    DoEstado(IF p.servico
             THEN processar_veiculacoes_periodo(db[1], contratos, db[2], db[3], db[4],
                                                p.per[1], p.per[2], p.force)
             ELSE processar_veiculacoes(db[1], contratos, db[2], db[3], db[4],
                                        p.per[1], p.per[2], p.force))

PassoInteiro(p) == PassoAPartirDe(p.inicio, p)

PassoAtomico ==
    passo.ativo =>
        /\ Persistido = passo.inicio
        /\ \/ /\ Persistido' = passo.inicio
              /\ PassoAPartirDe(Persistido', passo) = PassoInteiro(passo)
           \/ /\ ~passo'.ativo
              /\ passo.restantes = << >>
              /\ Persistido' = PassoInteiro(passo)

PeriodoDoPasso(data_inicio, data_fim, hoje) ==
    LET inicio == IF TruthyInt(data_inicio) THEN data_inicio ELSE hoje
        fim == IF TruthyInt(data_fim) THEN data_fim ELSE inicio
    IN  <<inicio, fim>>

\* A pass by rota over the stored rows veics.
PassoPelaRota(rota, veics, cred, per, force) ==
    IF rota = "endpoint"
    THEN processar_veiculacoes(veics, contratos, itens, metas, cred, per[1], per[2], force)
    ELSE processar_veiculacoes_periodo(veics, contratos, itens, metas, cred,
                                       per[1], per[2], force)

\* A pass of the endpoint or of the service, asked with or without its dates.
ProcessarNoPeriodo ==
    \E data_inicio \in Dias \cup {NULL}, data_fim \in Dias \cup {NULL}, hoje \in Dias :
        \E force \in BOOLEAN, rota \in {"endpoint", "servico"} :
            LET per == PeriodoDoPasso(data_inicio, data_fim, hoje)
                st == PassoPelaRota(rota, veiculacoes, credito, per, force)
            IN  /\ DentroDoLimite(st)
                /\ veiculacoes' = st.veics
                /\ itens' = st.its
                /\ metas' = st.mts
                /\ credito' = st.cred
                /\ UNCHANGED <<proximoId, contratos, outras>>

NextPeriodo ==
    \/ CriarVeiculacao
    \/ DeletarVeiculacao
    \/ ProcessarNoPeriodo

SpecPeriodo == InitVeiculacoes /\ [][NextPeriodo]_vars

\* The rows of f whose key is in S.
Restrita(f, S) == [k \in S |-> f[k]]

\* What a pass asked with (data_inicio, data_fim, force) on day hoje leaves alone:
\* every event before the first instant of the start day or after the last
\* instant of the end day keeps its row and its credit, and the counters and the
\* summary are those of the same pass over the events of the range alone.
ForaDoPeriodoIntacto(rota, data_inicio, data_fim, hoje, force) ==
    LET inicio == IF data_inicio = NULL THEN hoje ELSE data_inicio
        fim == IF data_fim = NULL THEN inicio ELSE data_fim
        fora == {id \in DOMAIN veiculacoes :
                    \/ veiculacoes[id].data_hora.dia < inicio
                    \/ veiculacoes[id].data_hora.dia > fim}
        dentro == DOMAIN veiculacoes \ fora
        st == PassoPelaRota(rota, veiculacoes, credito,
                            PeriodoDoPasso(data_inicio, data_fim, hoje), force)
        so == PassoPelaRota(rota, Restrita(veiculacoes, dentro),
                            Restrita(credito, dentro), <<inicio, fim>>, force)
    IN  /\ \A id \in fora :
              /\ id \in DOMAIN st.veics
              /\ st.veics[id] = veiculacoes[id]
              /\ st.cred[id] = credito[id]
        /\ st.its = so.its
        /\ st.mts = so.mts
        /\ st.processadas = so.processadas
        /\ st.erros = so.erros

\* C33: a reconcile pass over [start, end] leaves unchanged every event whose
\* timestamp lies outside the range, and no counter changes on its account, with
\* or without force; a pass asked without an end covers the single day start.
C33_ForaDoPeriodoIntacto ==
    \A data_inicio \in Dias \cup {NULL}, data_fim \in Dias \cup {NULL}, hoje \in Dias :
        \A force \in BOOLEAN, rota \in {"endpoint", "servico"} :
            ForaDoPeriodoIntacto(rota, data_inicio, data_fim, hoje, force)

\* A pass over the first day has accounted the later of two events and left the
\* earlier one, of the day after, as it was ingested.
C33_OutroDiaPendente ==
    /\ DOMAIN veiculacoes = {1, 2}
    /\ veiculacoes[1].data_hora.dia = 6 /\ ~veiculacoes[1].processado
    /\ veiculacoes[2].data_hora.dia = 5
    /\ veiculacoes[2].processado /\ veiculacoes[2].contabilizada

\* C37: when a reconcile pass over [start, end] is complete, no stored event with
\* a timestamp in the range remains unprocessed, the events with no resolved audio
\* file included.
C37_NenhumaPendenteNoPeriodo ==
    \A per \in Periodos, force \in BOOLEAN :
        \A st \in Passos(per, force) :
            \A id \in DOMAIN st.veics :
                (per[1] <= st.veics[id].data_hora.dia /\ st.veics[id].data_hora.dia <= per[2])
                    => st.veics[id].processado

\* C38: every stored event that is accounted is processed and linked to a
\* contract; a newly ingested event, still unprocessed, is not accounted.
C38_ContabilizadaEProcessada ==
    \A id \in DOMAIN veiculacoes :
        veiculacoes[id].contabilizada =>
            /\ veiculacoes[id].processado
            /\ veiculacoes[id].contrato_id # NULL

\* C39: the executed value of no item and of no file quota is ever negative,
\* whatever the passes, with or without force, and the deletions.
C39_ContadorNaoNegativo ==
    /\ \A i \in DOMAIN itens : itens[i].quantidade_executada >= 0
    /\ \A par \in DOMAIN metas : metas[par].quantidade_executada >= 0

\* An event is processed and accounted and the counter its reversal looks up first
\* is at 0: the quota of its file when the credit went to an item, or the item whose
\* credit a force pass reversed before the re-evaluation raised.
C39_EstornoEncontraZero ==
    \E id \in DOMAIN veiculacoes :
        LET v == veiculacoes[id]
            meta == buscar_meta_contabilizada(metas, v)
            item == buscar_item_contabilizado(contratos, itens, v)
        IN  /\ v.processado /\ v.contabilizada
            /\ \/ meta # SemMeta /\ metas[meta].quantidade_executada = 0
               \/ /\ meta = SemMeta /\ item # NULL
                  /\ itens[item].quantidade_executada = 0

\* C40: the reconcile endpoint and processar_veiculacoes_periodo are equivalent:
\* from the same events, contracts, items and quotas and with the same start, end
\* and force, they leave the same flags and contract links of the events and the
\* same counters, and report the same numbers of processed events and of errors.
C40_EndpointIgualAoServico ==
    \A per \in Periodos, force \in BOOLEAN :
        LET e == processar_veiculacoes(veiculacoes, contratos, itens, metas, credito,
                                       per[1], per[2], force)
            s == processar_veiculacoes_periodo(veiculacoes, contratos, itens, metas,
                                               credito, per[1], per[2], force)
        IN  /\ e.veics = s.veics
            /\ e.its = s.its
            /\ e.mts = s.mts
            /\ e.processadas = s.processadas
            /\ e.erros = s.erros


\* ---------------------------------------------------------------- the log parser
\* A text as the sequence of its characters.
Texto(s) == [k \in 1..Len(s) |-> SubSeq(s, k, k)]

\* unicodedata.normalize("NFKD", ...) followed by the removal of combining marks.
SemAcento == ("í" :> "i") @@ ("Í" :> "I")

\* ZaraLogParser._normalizar_texto
normalizar_texto(valor) ==
    strip(lower([k \in 1..Len(valor) |->
                    IF valor[k] \in DOMAIN SemAcento THEN SemAcento[valor[k]] ELSE valor[k]]))

\* str.replace("/", "\\")
TrocarBarras(valor) == [k \in 1..Len(valor) |-> IF valor[k] = "/" THEN "\\" ELSE valor[k]]

\* ZaraLogParser._normalizar_path
normalizar_path(valor) == lower(strip(TrocarBarras(valor)))

\* The positions of the character c in s.
Posicoes(s, c) == {k \in 1..Len(s) : s[k] = c}

Maior(S) == CHOOSE k \in S : \A j \in S : k >= j

\* re.split(r"\t+", linha)
RECURSIVE split_tabs(_)
split_tabs(s) ==
    IF Posicoes(s, "\t") = {} THEN <<s>>
    ELSE LET k == Min(Posicoes(s, "\t"))
             naoTab == {j \in k..Len(s) : s[j] # "\t"}
             resto == IF naoTab = {} THEN << >> ELSE SubSeq(s, Min(naoTab), Len(s))
         IN  <<SubSeq(s, 1, k - 1)>> \o split_tabs(resto)

Digitos ==
    ("0" :> 0) @@ ("1" :> 1) @@ ("2" :> 2) @@ ("3" :> 3) @@ ("4" :> 4)
 @@ ("5" :> 5) @@ ("6" :> 6) @@ ("7" :> 7) @@ ("8" :> 8) @@ ("9" :> 9)

\* self.log_pattern: ^\d{2}:\d{2}:\d{2}$
log_pattern(hora_str) ==
    /\ Len(hora_str) = 8
    /\ \A k \in {1, 2, 4, 5, 7, 8} : hora_str[k] \in DOMAIN Digitos
    /\ hora_str[3] = ":"
    /\ hora_str[6] = ":"

\* int() of a field of two digits
DoisDigitos(s, k) == 10 * Digitos[s[k]] + Digitos[s[k + 1]]

\* A parser that keeps the whole path.
CaminhoInteiro(caminho) == caminho

\* ntpath.basename: what follows the last separator, or the drive when there is none.
basename(caminho) ==
    LET seps == Posicoes(caminho, "\\") \cup Posicoes(caminho, "/")
        apos == IF seps # {} THEN Maior(seps)
                ELSE IF Len(caminho) >= 2 /\ caminho[2] = ":" THEN 2 ELSE 0
    IN  SubSeq(caminho, apos + 1, Len(caminho))

\* Config.CHAMADAS_BASE_PATH, unset in the environment.
CHAMADAS_BASE_PATH == getenv([definida |-> FALSE], Texto("J:\\AZARASTUDIO\\CHAMADAS"))

\* is_propaganda with the separator never appended to the base.
IsPropagandaSemSeparador(caminho_arquivo) ==
    startswith(normalizar_path(caminho_arquivo), normalizar_path(CHAMADAS_BASE_PATH))

\* ZaraLogParser.is_propaganda
is_propaganda(caminho_arquivo) ==
    LET caminho_normalizado == normalizar_path(caminho_arquivo)
        base0 == normalizar_path(CHAMADAS_BASE_PATH)
        base_normalizada == IF base0 # << >> /\ base0[Len(base0)] = "\\"
                            THEN base0 ELSE base0 \o <<"\\">>
    IN  startswith(caminho_normalizado, base_normalizada)

\* A parser that takes every action for a start.
QualquerAcao(action) == TRUE

\* action in {"inicio", "in"}
AcaoDeInicio(action) == action \in {Texto("inicio"), Texto("in")}

\* The frequency of the source of the log file, given to parse_line with each line.
FrequenciaDoLog == "102.7"

\* The results of parse_line: None, an exception, or the dictionary.
Nenhum ==
    [resultado |-> "None", nome_arquivo |-> << >>, data_hora |-> <<0, 0, 0>>,
     tipo_programa |-> NullStr, frequencia |-> NullStr]
Excecao ==
    [resultado |-> "raise", nome_arquivo |-> << >>, data_hora |-> <<0, 0, 0>>,
     tipo_programa |-> NullStr, frequencia |-> NullStr]

\* ZaraLogParser.parse_line; date.replace raises ValueError outside the clock.
parse_line(line) ==
    LET linha == strip(line)
        colunas == split_tabs(linha)
        hora_str == strip(colunas[1])
        action == normalizar_texto(colunas[2])
        caminho_tocado == strip(colunas[Len(colunas)])
        hms == <<DoisDigitos(hora_str, 1), DoisDigitos(hora_str, 4), DoisDigitos(hora_str, 7)>>
    IN  IF linha = << >> \/ startswith(linha, Texto("LOG FILE")) \/ startswith(linha, <<"=">>)
        THEN Nenhum
        ELSE IF Len(colunas) < 5 THEN Nenhum
        ELSE IF ~log_pattern(hora_str) THEN Nenhum
        ELSE IF ~AcaoDeInicio(action) THEN Nenhum
        ELSE IF ~is_propaganda(caminho_tocado) THEN Nenhum
        ELSE IF hms[1] > 23 \/ hms[2] > 59 \/ hms[3] > 59 THEN Excecao
        ELSE [resultado |-> "dict", nome_arquivo |-> basename(caminho_tocado),
              data_hora |-> hms, tipo_programa |-> NullStr,
              frequencia |-> FrequenciaDoLog]

\* "\t".join(colunas)
RECURSIVE Linha(_)
Linha(colunas) ==
    IF Len(colunas) = 1 THEN colunas[1]
    ELSE colunas[1] \o <<"\t">> \o Linha(Tail(colunas))

\* The lines given to the parser, by their columns: the time, the action, the
\* columns in between and the path.
EntradasParser ==
    LET Horas == {Texto("06:42:47"), Texto("99:99:99"), Texto("6:42:47"), Texto("06:42")}
        Acoes == {Texto("Início"), Texto("INICIO"), Texto("in"), Texto(" inicio "),
                  Texto("Interrompido"), Texto("Fim"), Texto("inicio2")}
        Meios == {<<Texto("Main"), Texto("default")>>, <<Texto("Main")>>,
                  <<Texto("Main"), Texto("default"), Texto("x")>>}
        Caminhos ==
            {Texto("J:\\AZARASTUDIO\\CHAMADAS\\SPOT_CLIENTE.mp3"),
             Texto("j:/azarastudio/chamadas/sub/spot_cliente.mp3"),
             Texto("J:\\AZARASTUDIO\\CHAMADAS2\\SPOT_CLIENTE.mp3"),
             Texto("J:\\AZARASTUDIO\\CHAMADAS"),
             Texto("J:\\AZARASTUDIO\\MUSICAS\\SPOT_CLIENTE.mp3"),
             Texto("C:\\J:\\AZARASTUDIO\\CHAMADAS\\SPOT_CLIENTE.mp3")}
    IN  {[hora |-> h, acao |-> a, meio |-> me, caminho |-> c] :
            h \in Horas, a \in Acoes, me \in Meios, c \in Caminhos}

LinhaDaEntrada(e) == Linha(<<e.hora, e.acao>> \o e.meio \o <<e.caminho>>) \o <<"\n">>

InitParser ==
    /\ InitBackend
    /\ entrada \in EntradasParser
    /\ saida = << >>
    /\ passo = [ativo |-> FALSE]
    /\ monitor = MonitorInicial
    /\ watch = WatchInicial

ParseLine ==
    /\ saida = << >>
    /\ saida' = <<parse_line(LinhaDaEntrada(entrada))>>
    /\ UNCHANGED <<veiculacoes, proximoId, contratos, itens, metas, credito, entrada, passo, monitor, watch>>

SpecParser == InitParser /\ [][ParseLine]_vars

\* The line is well formed but for its action: five columns or more, a time of day
\* and a path under the directory of the spots.
BemFormadaSalvoAcao(e) ==
    /\ e.hora = Texto("06:42:47")
    /\ Len(e.meio) >= 2
    /\ e.caminho \in {Texto("J:\\AZARASTUDIO\\CHAMADAS\\SPOT_CLIENTE.mp3"),
                      Texto("j:/azarastudio/chamadas/sub/spot_cliente.mp3")}

\* The actions of the lines that are start actions once accents, case and the
\* surrounding blanks are removed.
AcoesDeInicio == {Texto("Início"), Texto("INICIO"), Texto("in"), Texto(" inicio ")}

\* C16: a line whose action column is not a start action yields no candidate,
\* whatever its other columns, well formed or not.
C16_SoAcaoDeInicio ==
    (saida # << >> /\ entrada.acao \notin AcoesDeInicio) => saida[1] = Nenhum

\* An 'Interrompido' line with a time of day, five columns and a path under the
\* directory of the spots was parsed and gave nothing.
C16_InterrompidoBemFormado ==
    /\ saida = <<Nenhum>>
    /\ entrada.acao = Texto("Interrompido")
    /\ BemFormadaSalvoAcao(entrada)

\* The final column, with "/" for "\" and in lower case, begins with the configured
\* directory followed by a separator.
SobODiretorioDasChamadas(caminho) ==
    startswith(lower(TrocarBarras(strip(caminho))), Texto("j:\\azarastudio\\chamadas\\"))

CondicoesDoCandidato(e, horas) ==
    /\ e.hora \in horas
    /\ e.acao \in AcoesDeInicio
    /\ Len(e.meio) >= 2
    /\ SobODiretorioDasChamadas(e.caminho)

\* What the candidate of a line carries: the basename of the last column, the time
\* of the first one, the frequency given and no type of programme.
ConteudoDoCandidato(e, candidato) ==
    /\ candidato.nome_arquivo =
           (IF e.caminho = Texto("J:\\AZARASTUDIO\\CHAMADAS\\SPOT_CLIENTE.mp3")
            THEN Texto("SPOT_CLIENTE.mp3") ELSE Texto("spot_cliente.mp3"))
    /\ candidato.data_hora = <<6, 42, 47>>
    /\ candidato.frequencia = FrequenciaDoLog
    /\ candidato.tipo_programa = NullStr

MaxArquivos == 3

\* A lookup that takes a name beginning with the requested one for a match.
NomeComecaCom(nome_cadastrado, nome_normalizado) ==
    startswith(nome_cadastrado, nome_normalizado)

\* str(arquivo.get("nome_arquivo", "")).strip().lower() == nome_normalizado
NomeCoincide(nome_cadastrado, nome_normalizado) == nome_cadastrado = nome_normalizado

\* What get_arquivo_by_nome returns for None.
SemArquivo == [id |-> NULL, nome_arquivo |-> << >>]

\* APIClient.get_arquivo_by_nome, from the answer of GET /arquivos?busca=...: the
\* status, or "exc" for an exception of the request, and the files of the body.
get_arquivo_by_nome(nome_arquivo, resposta) ==
    IF resposta.status = "200" /\ resposta.arquivos # << >>
    THEN LET nome_normalizado == lower(strip(nome_arquivo))
             iguais == {k \in 1..Len(resposta.arquivos) :
                           NomeCoincide(lower(strip(resposta.arquivos[k].nome_arquivo)),
                                        nome_normalizado)}
         IN  IF iguais = {} THEN SemArquivo ELSE resposta.arquivos[Min(iguais)]
    ELSE SemArquivo

\* The registered files an answer can hold: the exact name, the same name in another
\* case and padded, names that contain the requested one as a prefix or further in,
\* and a similar name.
Cadastrados ==
    {[id |-> 1, nome_arquivo |-> Texto("spot_cliente_v2.mp3")],
     [id |-> 2, nome_arquivo |-> Texto("spot_cliente.mp3")],
     [id |-> 3, nome_arquivo |-> Texto("spot_cliente.mp3.bak")],
     [id |-> 4, nome_arquivo |-> Texto("x_spot_cliente.mp3")],
     [id |-> 5, nome_arquivo |-> Texto(" SPOT_CLIENTE.MP3")]}

\* The answers: lists without repetition of at most MaxArquivos files.
Respostas ==
    {[status |-> "200", arquivos |-> l] :
        l \in {q \in UNION {[1..n -> Cadastrados] : n \in 0..MaxArquivos} :
                  \A i, j \in 1..Len(q) : i # j => q[i] # q[j]}}
    \cup {[status |-> st, arquivos |-> << >>] : st \in {"401", "500", "exc"}}

EntradasLookup ==
    {[nome_arquivo |-> n, resposta |-> r] :
        n \in {Texto("spot_cliente.mp3"), Texto("SPOT_CLIENTE.mp3 "), Texto("spot")},
        r \in Respostas}

InitLookup ==
    /\ InitBackend
    /\ entrada \in EntradasLookup
    /\ saida = << >>
    /\ passo = [ativo |-> FALSE]
    /\ monitor = MonitorInicial
    /\ watch = WatchInicial

GetArquivoByNome ==
    /\ saida = << >>
    /\ saida' = <<get_arquivo_by_nome(entrada.nome_arquivo, entrada.resposta)>>
    /\ UNCHANGED <<veiculacoes, proximoId, contratos, itens, metas, credito, entrada, passo, monitor, watch>>

SpecLookup == InitLookup /\ [][GetArquivoByNome]_vars

\* The positions of the answer whose name is the requested one, both trimmed and in
\* lower case.
Exatos(e) ==
    {k \in 1..Len(e.resposta.arquivos) :
        lower(strip(e.resposta.arquivos[k].nome_arquivo)) = lower(strip(e.nome_arquivo))}

\* C19: the lookup returns a file of the answer whose name equals the requested
\* basename after trimming and lowercasing both, the first such file of the answer,
\* and returns none when the answer holds no such file, whatever longer names that
\* contain the basename it holds.
C19_BuscaExata ==
    saida # << >> =>
        IF Exatos(entrada) = {}
        THEN saida[1] = SemArquivo
        ELSE \E k \in Exatos(entrada) :
                /\ saida[1] = entrada.resposta.arquivos[k]
                /\ \A j \in Exatos(entrada) : k <= j

\* The answer held spot_cliente.mp3.bak before spot_cliente.mp3 and the lookup of
\* spot_cliente.mp3 returned the latter.
C19_ExatoDepoisDoMaisLongo ==
    /\ saida # << >>
    /\ entrada.nome_arquivo = Texto("spot_cliente.mp3")
    /\ Len(entrada.resposta.arquivos) >= 2
    /\ entrada.resposta.arquivos[1].id = 3
    /\ entrada.resposta.arquivos[2].id = 2
    /\ saida[1].id = 2

\* ---------------------------------------------------------------- the retries
\* Most attempts of one call.
MaxTentativas == 3

\* What an attempt meets: an answer with its status, or requests.RequestException.
Resposta(status_code) == [exc |-> FALSE, status_code |-> status_code]
FalhaDeRede == [exc |-> TRUE, status_code |-> 0]

\* A client that tries again after every answer that is an error.
RepeteTodoErro(status_code) == status_code >= 400

\* response.status_code >= 500
DeveRepetir(status_code) == status_code >= 500

\* The loop of _request_with_retry from attempt on; esperas are the waits so far,
\* in units of 0.2 s.
RECURSIVE Tentar(_, _, _, _)
Tentar(retries, respostas, attempt, esperas) ==
    LET response == respostas[attempt]
    IN  IF response.exc
        THEN IF attempt < retries
             THEN Tentar(retries, respostas, attempt + 1, Append(esperas, attempt))
             ELSE [raise |-> TRUE, response |-> response, tentativas |-> attempt,
                   esperas |-> esperas]
        ELSE IF DeveRepetir(response.status_code) /\ attempt < retries
             THEN Tentar(retries, respostas, attempt + 1, Append(esperas, attempt))
             ELSE [raise |-> FALSE, response |-> response, tentativas |-> attempt,
                   esperas |-> esperas]

\* APIClient._request_with_retry of a client built with retries: self.retries is
\* max(1, retries).
request_with_retry(retries, respostas) ==
    Tentar(IF retries > 1 THEN retries ELSE 1, respostas, 1, << >>)

\* Config.REQUEST_RETRIES
REQUEST_RETRIES == 3

\* A request that meets no failure on its way: the application answers it.
SemFalha == [exc |-> FALSE, status_code |-> 0]

\* What the next requests of the monitor meet is a sequence, one element per
\* request sent; past its end every request reaches the application.
Proxima(fila) == IF fila = << >> THEN SemFalha ELSE Head(fila)
Resto(fila, n) == IF n >= Len(fila) THEN << >> ELSE SubSeq(fila, n + 1, Len(fila))

\* ---------------------------------------------------------------- the monitor
\* Most lines of the log file, and most failed reads of one monitor.
MaxLinhas == 3
MaxErros == 2

\* The lines the automation software writes: a start of the registered spot, a
\* start of a spot that is not registered, a line that is no event, a start whose
\* first column has the shape of a time and is none, and the start of line 2 with
\* the name of the file in upper case.
LinhasDoLog ==
    <<Texto("10:15:00\tInício\tMain\tdefault\tJ:\\AZARASTUDIO\\CHAMADAS\\SPOT_CLIENTE.mp3\n"),
      Texto("11:30:00\tInício\tMain\tdefault\tJ:\\AZARASTUDIO\\CHAMADAS\\avulso.mp3\n"),
      Texto("LOG FILE 16-02-2026\n"),
      Texto("99:99:99\tInício\tMain\tdefault\tJ:\\AZARASTUDIO\\CHAMADAS\\SPOT_CLIENTE.mp3\n"),
      Texto("11:30:00\tInício\tMain\tdefault\tJ:\\AZARASTUDIO\\CHAMADAS\\AVULSO.MP3\n")>>

\* The day of the log file (a Friday).
DiaDoLog == 5

\* Table arquivos_audio as GET /arquivos lists it, the latest upload first.
ArquivosCadastrados ==
    <<[id |-> 2, nome_arquivo |-> Texto("spot_cliente_v2.mp3")],
      [id |-> 1, nome_arquivo |-> Texto("spot_cliente.mp3")]>>

\* nome_arquivo ILIKE %busca%
contem(s, t) == \E k \in 0..(Len(s) - Len(t)) : SubSeq(s, k + 1, k + Len(t)) = t

\* listar_arquivos (GET /arquivos?busca=...)
RECURSIVE Filtrar(_, _)
Filtrar(arquivos, busca) ==
    IF arquivos = << >> THEN << >>
    ELSE (IF contem(lower(Head(arquivos).nome_arquivo), lower(busca))
          THEN <<Head(arquivos)>> ELSE << >>) \o Filtrar(Tail(arquivos), busca)

listar_arquivos(busca) == [status |-> "200", arquivos |-> Filtrar(ArquivosCadastrados, busca)]

\* Config.INGEST_BATCH_SIZE
INGEST_BATCH_SIZE == 100

\* A monitor that drops the candidate whose basename resolves to no file.
ItemSoDoCadastrado(arquivo_id, nome_arquivo, data_hora) ==
    IF arquivo_id # NULL
    THEN <<[arquivo_audio_id |-> arquivo_id, nome_arquivo_raw |-> NullStr,
            data_hora |-> data_hora, frequencia |-> FrequenciaDoLog,
            tipo_programa |-> NullStr, fonte |-> "zara_log"]>>
    ELSE << >>

\* The item of a candidate: it carries the identity of the file when the lookup
\* found one (nome_arquivo_raw absent), the raw basename otherwise
\* (arquivo_audio_id absent).
ItemDoCandidato(arquivo_id, nome_arquivo, data_hora) ==
    <<[arquivo_audio_id |-> arquivo_id,
       nome_arquivo_raw |-> IF arquivo_id # NULL THEN NullStr ELSE nome_arquivo,
       data_hora |-> data_hora, frequencia |-> FrequenciaDoLog,
       tipo_programa |-> NullStr, fonte |-> "zara_log"]>>

\* A monitor that takes no key for seen.
NuncaVisto(dedupe_key, dedupe_cache) == FALSE

\* dedupe_key in self._dedupe_cache
JaVisto(dedupe_key, dedupe_cache) == dedupe_key \in dedupe_cache

\* The answer of GET /arquivos?busca=... as get_arquivo_by_nome sees it.
RespostaDaBusca(resultado, busca) ==
    IF resultado.exc THEN [status |-> "exc", arquivos |-> << >>]
    ELSE IF resultado = SemFalha THEN listar_arquivos(busca)
    ELSE [status |-> IF resultado.status_code = 401 THEN "401" ELSE "500",
          arquivos |-> << >>]

\* A monitor that finds no basename in its cache.
ForaDoCache(nome_key, arquivo_id_cache) == FALSE

\* nome_key in self._arquivo_id_cache
NoCache(nome_key, arquivo_id_cache) == nome_key \in DOMAIN arquivo_id_cache

\* One more request GET /arquivos for the basename.
Contar(buscas, nome_key) ==
    IF nome_key \in DOMAIN buscas THEN [buscas EXCEPT ![nome_key] = @ + 1]
    ELSE buscas @@ (nome_key :> 1)

\* The loop of create_veiculacoes_from_logs over the candidates: the cache of the
\* lookups, the cache of the keys and the payload.
RECURSIVE MontarPayload(_, _)
MontarPayload(r, propagandas) ==
    IF propagandas = << >> THEN r
    ELSE LET propaganda == Head(propagandas)
             nome_arquivo == propaganda.nome_arquivo
             nome_key == lower(strip(nome_arquivo))
             noCache == NoCache(nome_key, r.arquivo_id_cache)
             arquivo_id == IF noCache THEN r.arquivo_id_cache[nome_key]
                           ELSE get_arquivo_by_nome(nome_arquivo,
                                    RespostaDaBusca(Proxima(r.fila), nome_arquivo)).id
             cache == IF noCache THEN r.arquivo_id_cache
                      ELSE IF nome_key \in DOMAIN r.arquivo_id_cache
                      THEN [r.arquivo_id_cache EXCEPT ![nome_key] = arquivo_id]
                      ELSE r.arquivo_id_cache @@ (nome_key :> arquivo_id)
             fila == IF noCache THEN r.fila ELSE Resto(r.fila, 1)
             buscas == IF noCache THEN r.buscas ELSE Contar(r.buscas, nome_key)
             data_hora == [dia |-> DiaDoLog, hora |-> propaganda.data_hora[1],
                           minuto |-> propaganda.data_hora[2],
                           segundo |-> propaganda.data_hora[3]]
             dedupe_key == [arquivo_id |-> arquivo_id,
                            nome_key |-> IF arquivo_id # NULL THEN << >> ELSE nome_key,
                            data_hora |-> data_hora, frequencia |-> FrequenciaDoLog]
         IN  IF JaVisto(dedupe_key, r.dedupe_cache)
             THEN MontarPayload([r EXCEPT !.arquivo_id_cache = cache, !.fila = fila,
                                          !.buscas = buscas],
                                Tail(propagandas))
             ELSE MontarPayload([r EXCEPT !.arquivo_id_cache = cache, !.fila = fila,
                                          !.buscas = buscas,
                                          !.dedupe_cache = @ \cup {dedupe_key},
                                          !.payload = @ \o ItemDoCandidato(arquivo_id,
                                                               nome_arquivo, data_hora)],
                                Tail(propagandas))

\* POST /veiculacoes/ with an item of the monitor: the body is validated against
\* schemas.VeiculacaoCreate, whose arquivo_audio_id is a required int (422 without
\* it), then criar_veiculacao runs.
PostVeiculacao(veics, prox, item) ==
    IF item.arquivo_audio_id = NULL
    THEN [status |-> 422, id |-> NULL, veics |-> veics]
    ELSE criar_veiculacao(veics, prox,
             Payload(item.arquivo_audio_id, item.data_hora.dia, item.data_hora.hora,
                     item.frequencia, item.tipo_programa, item.fonte))

\* A fallback that counts no failure.
FalhaIgnorada(r) == r

\* falhas += 1
FalhaContada(r) == [r EXCEPT !.falhas = @ + 1]

\* A fallback that sends nothing and reports every item as failed.
FallbackSemEnvio(r, payload) == [r EXCEPT !.falhas = @ + Len(payload)]

\* _create_veiculacoes_fallback: one create_veiculacao per item, sent once; 201 is
\* a created event, 200 an existing one, and any other answer or an exception of
\* the request makes create_veiculacao return None, which is a failure.
RECURSIVE create_veiculacoes_fallback(_, _)
create_veiculacoes_fallback(r, payload) ==
    IF payload = << >> THEN r
    ELSE LET resultado == Proxima(r.fila)
             r1 == [r EXCEPT !.fila = Resto(@, 1), !.posts = @ + 1]
             resp == PostVeiculacao(r.veics, r.prox, Head(payload))
         IN  create_veiculacoes_fallback(
                 IF resultado = SemFalha /\ resp.status = 201
                 THEN [r1 EXCEPT !.veics = resp.veics, !.prox = @ + 1, !.criadas = @ + 1]
                 ELSE IF resultado = SemFalha /\ resp.status = 200
                 THEN [r1 EXCEPT !.existentes = @ + 1]
                 ELSE FalhaContada(r1),
                 Tail(payload))

\* A client that answers a 401 of the bulk call with the calls one by one.
BatchSem401(r, chunk, response) == create_veiculacoes_fallback(r, chunk)

\* The branches of create_veiculacoes_batch on the answer of the bulk call: the
\* counts of the answer on 200, every item a failure on 401, the calls one by one
\* otherwise.
RespostaDoLote(r, chunk, response) ==
    IF response = SemFalha
    THEN LET lote == ResultadoDoLote(r.veics, r.prox, chunk)
         IN  [r EXCEPT !.veics = lote.veics, !.prox = lote.prox,
                       !.criadas = @ + lote.criadas,
                       !.existentes = @ + lote.existentes,
                       !.falhas = @ + lote.falhas]
    ELSE IF response.status_code = 401 THEN [r EXCEPT !.falhas = @ + Len(chunk)]
    ELSE create_veiculacoes_fallback(r, chunk)

\* APIClient.create_veiculacoes_batch: the bulk call with its retries, and the
\* calls one by one when it raises.
create_veiculacoes_batch(r, chunk) ==
    IF chunk = << >> THEN r
    ELSE LET res == request_with_retry(REQUEST_RETRIES,
                        r.fila \o [k \in 1..REQUEST_RETRIES |-> SemFalha])
             r1 == [r EXCEPT !.fila = Resto(@, res.tentativas),
                             !.tentativas = @ + res.tentativas]
         IN  IF res.raise THEN create_veiculacoes_fallback(r1, chunk)
             ELSE RespostaDoLote(r1, chunk, res.response)

\* The state of a submission before its first request.
Submissao(veics, prox, fila) ==
    [veics |-> veics, prox |-> prox, fila |-> fila, criadas |-> 0, existentes |-> 0,
     falhas |-> 0, tentativas |-> 0, posts |-> 0]

\* The loop over the chunks of the payload.
RECURSIVE EnviarLotes(_, _)
EnviarLotes(r, payload) ==
    IF payload = << >> THEN r
    ELSE LET batch_size == IF INGEST_BATCH_SIZE > 1 THEN INGEST_BATCH_SIZE ELSE 1
             n == IF Len(payload) < batch_size THEN Len(payload) ELSE batch_size
         IN  EnviarLotes(create_veiculacoes_batch(r, SubSeq(payload, 1, n)),
                         SubSeq(payload, n + 1, Len(payload)))

\* LogMonitor.create_veiculacoes_from_logs: the monitor and the table after it.
create_veiculacoes_from_logs(mon, veics, prox, propagandas, fila) ==
    LET p == MontarPayload([arquivo_id_cache |-> mon.arquivo_id_cache,
                            dedupe_cache |-> mon.dedupe_cache, payload |-> << >>,
                            fila |-> fila, buscas |-> mon.buscas],
                           propagandas)
        r == EnviarLotes(Submissao(veics, prox, p.fila), p.payload)
    IN  [mon |-> [mon EXCEPT !.arquivo_id_cache = p.arquivo_id_cache,
                             !.buscas = p.buscas,
                             !.dedupe_cache = p.dedupe_cache,
                             !.enviados = @ \o p.payload,
                             !.veiculacoes_criadas = @ + r.criadas,
                             !.erros = @ + r.falhas],
         veics |-> r.veics, prox |-> r.prox]

\* The lines a read starts from: the stored offset of an incremental read, 0 when
\* none is stored or the file is shorter than it, 0 for a read of the whole file.
LinhasLidas(mon, incremental) ==
    LET guardado == IF incremental /\ mon.file_offsets.definido
                    THEN mon.file_offsets.valor ELSE 0
        start_offset == IF incremental /\ guardado > Len(mon.arquivo) THEN 0 ELSE guardado
    IN  SubSeq(mon.arquivo, start_offset + 1, Len(mon.arquivo))

\* parse_line of every line the automation software writes.
LinhasParseadas == [l \in 1..Len(LinhasDoLog) |-> parse_line(LinhasDoLog[l])]

\* The lines are parsed one by one until one raises.
Parseadas(linhas) == [k \in 1..Len(linhas) |-> LinhasParseadas[linhas[k]]]

\* LogMonitor.process_log_file: an exception of parse_line leaves the loop for the
\* handler of the read, which counts an error and returns.
process_log_file(mon, veics, prox, incremental, fila) ==
    LET res == Parseadas(LinhasLidas(mon, incremental))
        propagandas == SelectSeq(res, LAMBDA x : x.resultado = "dict")
        mon1 == [mon EXCEPT !.file_offsets = [definido |-> TRUE, valor |-> Len(mon.arquivo)]]
    IN  IF \E k \in 1..Len(res) : res[k] = Excecao
        THEN [mon |-> [mon EXCEPT !.erros = @ + 1], veics |-> veics, prox |-> prox]
        ELSE IF propagandas = << >> THEN [mon |-> mon1, veics |-> veics, prox |-> prox]
        ELSE create_veiculacoes_from_logs(mon1, veics, prox, propagandas, fila)

\* The automation software appends a line to the log file.
EscreverLinha ==
    \E l \in 1..Len(LinhasDoLog) :
        /\ Len(monitor.arquivo) < MaxLinhas
        /\ monitor' = [monitor EXCEPT !.arquivo = Append(@, l)]
        /\ UNCHANGED <<veiculacoes, proximoId, contratos, itens, metas, credito,
                       entrada, saida, passo, watch>>

\* One read of the log file, of the whole file or from the stored offset, every
\* request of which reaches the application.
ProcessLogFile ==
    \E incremental \in BOOLEAN :
        LET r == process_log_file(monitor, veiculacoes, proximoId, incremental, << >>)
        IN  /\ r.mon.erros <= MaxErros
            /\ monitor' = r.mon
            /\ veiculacoes' = r.veics
            /\ proximoId' = r.prox
            /\ UNCHANGED <<contratos, itens, metas, credito, entrada, saida, passo, watch>>

NextMonitor ==
    \/ EscreverLinha
    \/ ProcessLogFile

\* The application with its contracts and no event, and the monitor just built.
InitMonitor ==
    /\ InitBackend
    /\ InitOutras

SpecMonitor == InitMonitor /\ [][NextMonitor]_vars

\* The lines at and after the stored offset, those every read covers.
LinhasPorLer == LinhasLidas(monitor, TRUE)

\* The candidate of line l of the table is among the items handed to the submission.
Enviada(mon, l) ==
    LET p == parse_line(LinhasDoLog[l])
    IN  \E k \in 1..Len(mon.enviados) :
            /\ mon.enviados[k].data_hora.hora = p.data_hora[1]
            /\ mon.enviados[k].data_hora.minuto = p.data_hora[2]
            /\ mon.enviados[k].data_hora.segundo = p.data_hora[3]
            /\ \/ mon.enviados[k].arquivo_audio_id # NULL
               \/ lower(strip(mon.enviados[k].nome_arquivo_raw)) = lower(strip(p.nome_arquivo))

\* A step of the monitor that is a read of the file: the file is as it was, and the
\* monitor is not.
Leitura == monitor'.arquivo = monitor.arquivo /\ monitor' # monitor

LeituraCompleta ==
    Leitura =>
        /\ monitor'.file_offsets = [definido |-> TRUE, valor |-> Len(monitor.arquivo)]
        /\ \A k \in 1..Len(LinhasPorLer) :
              LinhasPorLer[k] \in {1, 2, 5} => Enviada(monitor', LinhasPorLer[k])

\* C18: whatever the lines of the file, a read goes through all of them: the stored
\* offset becomes the end of the file and the candidate of every well-formed start
\* line is submitted, also when another line has a first column of the shape
\* HH:MM:SS that is no time of day.
C18_LinhaMalformadaIgnorada == [][LeituraCompleta]_vars

\* A step of the monitor that is a read of the whole file, as batch mode makes it.
LeituraDoArquivoInteiro ==
    monitor' = process_log_file(monitor, veiculacoes, proximoId, FALSE, << >>).mon

VarreduraCompleta ==
    LeituraDoArquivoInteiro =>
        \A k \in 1..Len(monitor.arquivo) :
            monitor.arquivo[k] \in {1, 2, 5} => Enviada(monitor', monitor.arquivo[k])

\* C28: a read of batch mode starts at the beginning of the file whatever offset is
\* stored and parses every line, so that after it the candidate of every start
\* line of a spot in the file has been handed to the submission.
C28_VarreduraCompleta == [][VarreduraCompleta]_vars

\* The lines already read: those before the stored offset.
LinhasJaLidas ==
    IF monitor.file_offsets.definido THEN SubSeq(monitor.arquivo, 1, monitor.file_offsets.valor)
    ELSE << >>

\* An event with the timestamp and the frequency of lines 2 and 5 of the table, the
\* raw basename nome and no linked file.
AvulsoArmazenado(nome) ==
    \E id \in DOMAIN veiculacoes :
        /\ veiculacoes[id].arquivo_audio_id = NULL
        /\ veiculacoes[id].nome_arquivo_raw = nome
        /\ veiculacoes[id].data_hora = [dia |-> DiaDoLog, hora |-> 11, minuto |-> 30,
                                        segundo |-> 0]
        /\ veiculacoes[id].frequencia = FrequenciaDoLog
        /\ veiculacoes[id].fonte = "zara_log"

\* The positions of the lines already read that are a start of the spot that is not
\* registered.
AvulsosLidos == {k \in 1..Len(LinhasJaLidas) : LinhasJaLidas[k] \in {2, 5}}

ChaveDoItem(item) ==
    [arquivo |-> item.arquivo_audio_id,
     nome |-> IF item.arquivo_audio_id # NULL THEN << >> ELSE lower(item.nome_arquivo_raw),
     data_hora |-> item.data_hora, frequencia |-> item.frequencia]

\* C21: over the life of the monitor, whatever the reads of the file, no two of the
\* items handed to the submission have the same key.
C21_SemChaveRepetida ==
    \A i, j \in 1..Len(monitor.enviados) :
        i # j => ChaveDoItem(monitor.enviados[i]) # ChaveDoItem(monitor.enviados[j])

\* The start of the unregistered spot is three times in the file, under two
\* spellings, all three were read, and one item was submitted.
C21_TresLinhasUmItem ==
    /\ Len(monitor.arquivo) = 3
    /\ \A k \in 1..3 : monitor.arquivo[k] \in {2, 5}
    /\ \E k \in 1..3 : monitor.arquivo[k] = 5
    /\ monitor.file_offsets = [definido |-> TRUE, valor |-> 3]
    /\ Len(monitor.enviados) = 1

\* ---------------------------------------------------------------- the retry loop alone
EntradasRetry ==
    {[retries |-> n, respostas |-> r] :
        n \in 0..MaxTentativas,
        r \in [1..MaxTentativas ->
                  {Resposta(200), Resposta(401), Resposta(404), Resposta(500),
                   FalhaDeRede}]}

InitRetry ==
    /\ InitBackend
    /\ entrada \in EntradasRetry
    /\ saida = << >>
    /\ passo = [ativo |-> FALSE]
    /\ monitor = MonitorInicial
    /\ watch = WatchInicial

RequestWithRetry ==
    /\ saida = << >>
    /\ saida' = <<request_with_retry(entrada.retries, entrada.respostas)>>
    /\ UNCHANGED <<veiculacoes, proximoId, contratos, itens, metas, credito, entrada, passo, monitor, watch>>

SpecRetry == InitRetry /\ [][RequestWithRetry]_vars

\* The attempt met a network failure or an answer of the 5xx class.
Transitoria(response) == response.exc \/ response.status_code >= 500

\* C23: a call is tried at most max(1, retries) times; every attempt but the last
\* met a network failure or a 5xx answer and was followed by a wait of 0.2 s times
\* its number; the call ends with the answer of its last attempt, or raises when
\* that attempt met a network failure and was the last allowed; an answer below
\* 500 ends the call at the attempt that receives it.
C23_RepeticaoLimitada ==
    saida # << >> =>
        LET n == IF entrada.retries > 1 THEN entrada.retries ELSE 1
            res == saida[1]
            t == res.tentativas
        IN  /\ t \in 1..n
            /\ \A k \in 1..(t - 1) : Transitoria(entrada.respostas[k])
            /\ res.esperas = [k \in 1..(t - 1) |-> k]
            /\ res.response = entrada.respostas[t]
            /\ res.raise = entrada.respostas[t].exc
            /\ Transitoria(entrada.respostas[t]) => t = n

\* A client of three attempts met a network failure, then a 500, then a 401: the
\* third answer was returned after waits of 0.2 s and 0.4 s.
C23_DuasRepeticoes ==
    /\ saida # << >>
    /\ entrada.retries = 3
    /\ SubSeq(entrada.respostas, 1, 3) = <<FalhaDeRede, Resposta(500), Resposta(401)>>
    /\ saida[1].tentativas = 3
    /\ saida[1].esperas = <<1, 2>>
    /\ saida[1].response = Resposta(401)
    /\ ~saida[1].raise

\* ---------------------------------------------------------------- one batch alone
\* What the requests of a submission can meet.
Resultados == {SemFalha, FalhaDeRede, Resposta(401), Resposta(404), Resposta(500)}

\* The batches: the registered spot, the one that is not registered, both, and the
\* registered spot twice; and what each of the next requests meets.
EntradasLote ==
    LET a == ItemDoCandidato(1, Texto("SPOT_CLIENTE.mp3"),
                             [dia |-> DiaDoLog, hora |-> 10, minuto |-> 15, segundo |-> 0])
        b == ItemDoCandidato(NULL, Texto("avulso.mp3"),
                             [dia |-> DiaDoLog, hora |-> 11, minuto |-> 30, segundo |-> 0])
    IN  {[payload |-> p, fila |-> f] :
            p \in {a, b, a \o b, b \o a, a \o a},
            f \in [1..(REQUEST_RETRIES + 2) -> Resultados]}

InitLote ==
    /\ InitBackend
    /\ entrada \in EntradasLote
    /\ saida = << >>
    /\ passo = [ativo |-> FALSE]
    /\ monitor = MonitorInicial
    /\ watch = WatchInicial

\* One call of create_veiculacoes_batch: its result, and the table after it.
CreateVeiculacoesBatch ==
    /\ saida = << >>
    /\ LET r == create_veiculacoes_batch(Submissao(veiculacoes, proximoId, entrada.fila),
                                         entrada.payload)
       IN  /\ saida' = <<[criadas |-> r.criadas, existentes |-> r.existentes,
                          falhas |-> r.falhas, tentativas |-> r.tentativas,
                          posts |-> r.posts]>>
           /\ veiculacoes' = r.veics
           /\ proximoId' = r.prox
    /\ UNCHANGED <<contratos, itens, metas, credito, entrada, passo, monitor, watch>>

SpecLote == InitLote /\ [][CreateVeiculacoesBatch]_vars

\* The attempts of the bulk call: the first that meets neither a network failure
\* nor a 5xx answer, or the last allowed.
TentativasDoLote(fila) ==
    IF \E k \in 1..REQUEST_RETRIES : ~Transitoria(fila[k])
    THEN Min({k \in 1..REQUEST_RETRIES : ~Transitoria(fila[k])})
    ELSE REQUEST_RETRIES

\* What the last attempt of the bulk call met.
FimDoLote(fila) == fila[TentativasDoLote(fila)]

\* C22: when the bulk call ends with an answer that is neither 200 nor 401, or
\* with a network failure at its last attempt, every item of the batch is sent
\* once on its own, and created + existing + failed is the size of the batch, the
\* created ones being the events added to the table.
C22_FallbackUmPorUm ==
    (saida # << >> /\ FimDoLote(entrada.fila) \notin {SemFalha, Resposta(401)}) =>
        /\ saida[1].posts = Len(entrada.payload)
        /\ saida[1].criadas + saida[1].existentes + saida[1].falhas = Len(entrada.payload)
        /\ saida[1].criadas = Cardinality(DOMAIN veiculacoes)

\* The bulk call met a 500 at each of its three attempts; of the two items sent one
\* by one the registered one was created and the other failed.
C22_Tres500DoisPosts ==
    /\ saida # << >>
    /\ \A k \in 1..REQUEST_RETRIES : entrada.fila[k] = Resposta(500)
    /\ Len(entrada.payload) = 2
    /\ saida[1].tentativas = REQUEST_RETRIES
    /\ saida[1].posts = 2
    /\ saida[1].criadas = 1
    /\ saida[1].falhas = 1

\* C24: when the bulk call is answered 401, it is not tried again, no item is sent
\* on its own, every item of the batch is reported as failed and nothing is stored.
C24_NaoAutorizado ==
    (saida # << >> /\ FimDoLote(entrada.fila) = Resposta(401)) =>
        /\ saida[1].tentativas = TentativasDoLote(entrada.fila)
        /\ saida[1].posts = 0
        /\ saida[1].falhas = Len(entrada.payload)
        /\ saida[1].criadas = 0
        /\ saida[1].existentes = 0
        /\ veiculacoes = << >>

\* The first attempt of the bulk call of two items was answered 401, the requests
\* after it would have reached the application, and the call ended there with two
\* failures.
C24_401NaPrimeira ==
    /\ saida # << >>
    /\ entrada.fila[1] = Resposta(401)
    /\ \A k \in 2..Len(entrada.fila) : entrada.fila[k] = SemFalha
    /\ Len(entrada.payload) = 2
    /\ saida[1].tentativas = 1
    /\ saida[1].falhas = 2

\* ------------------------------------------ the monitor with failing requests
\* What the first requests of one read meet; the requests after them reach the
\* application.
FilasDoMonitor == [1..3 -> Resultados]

\* One read of the log file, the requests of which meet any pattern of failures.
ProcessLogFileComFalhas ==
    \E incremental \in BOOLEAN, fila \in FilasDoMonitor :
        LET r == process_log_file(monitor, veiculacoes, proximoId, incremental, fila)
        IN  /\ r.mon.erros <= MaxErros + MaxLinhas
            /\ monitor' = r.mon
            /\ veiculacoes' = r.veics
            /\ proximoId' = r.prox
            /\ UNCHANGED <<contratos, itens, metas, credito, entrada, saida, passo, watch>>

NextMonitorFalhas ==
    \/ EscreverLinha
    \/ ProcessLogFileComFalhas

SpecMonitorFalhas == InitMonitor /\ [][NextMonitorFalhas]_vars

\* A read submitted items: the error count of the monitor grew by the number of
\* the items submitted that were not stored.
FalhasContadas ==
    Len(monitor'.enviados) > Len(monitor.enviados)
    => monitor'.erros - monitor.erros
       = (Len(monitor'.enviados) - Len(monitor.enviados))
         - (Cardinality(DOMAIN veiculacoes') - Cardinality(DOMAIN veiculacoes))

\* C25: whatever failures the requests of a read meet (lookups, attempts of the
\* bulk call, calls one by one), the submission of the candidates ends with the
\* counts of the monitor updated, and every item it submitted that was not stored
\* is one more error of the run.
C25_FalhasContadas == [][FalhasContadas]_vars

\* Two items were submitted, one is stored and the other is the only error of the
\* run, the file holding no line that fails to parse.
C25_UmArmazenadoUmErro ==
    /\ Len(monitor.enviados) = 2
    /\ Cardinality(DOMAIN veiculacoes) = 1
    /\ monitor.erros = 1
    /\ \A k \in 1..Len(monitor.arquivo) : monitor.arquivo[k] # 4

\* ------------------------------------------ the monitor that keeps reading
\* The requests of a read while the application is unreachable.
ForaDoAr == [k \in 1..12 |-> FalhaDeRede]

\* The run of the monitor (run_batch_mode, or a flush of watch mode) starts a
\* read of the file; saida holds what became of the last read.
IniciarLeitura ==
    /\ saida # <<"lendo">>
    /\ saida' = <<"lendo">>
    /\ UNCHANGED <<veiculacoes, proximoId, contratos, itens, metas, credito, entrada,
                   passo, monitor, watch>>

\* What the requests of a read meet: nothing, or an application that is
\* unreachable, or one that answers the bulk call 401.
FilasDaLeitura == {<< >>, ForaDoAr, <<SemFalha, Resposta(401)>>}

\* The read that was started; saida tells whether every request of it reached the
\* application.
LerOArquivo ==
    \E incremental \in BOOLEAN, fila \in FilasDaLeitura :
        LET r == process_log_file(monitor, veiculacoes, proximoId, incremental, fila)
        IN  /\ saida = <<"lendo">>
            /\ r.mon.erros <= MaxErros
            /\ monitor' = r.mon
            /\ veiculacoes' = r.veics
            /\ proximoId' = r.prox
            /\ saida' = IF fila = << >> THEN <<"atendida">> ELSE <<"sem resposta">>
            /\ UNCHANGED <<contratos, itens, metas, credito, entrada, passo, watch>>

NextMonitorJusto ==
    \/ EscreverLinha
    \/ IniciarLeitura
    \/ LerOArquivo

\* The file keeps being read by the same monitor: reads keep being started.
SpecMonitorJusto == InitMonitor /\ [][NextMonitorJusto]_vars /\ WF_vars(IniciarLeitura)

\* The application ends up answering: time and again a read is an answered one.
AplicacaoAcabaRespondendo == []<>(saida = <<"atendida">>)

\* The line at position pos of the file is the start of a spot and a read went
\* past it.
CandidatoLido(pos) ==
    /\ pos <= Len(LinhasJaLidas)
    /\ LinhasJaLidas[pos] \in {1, 2, 5}

\* An event with the time of the candidate of line l and the frequency of the log
\* is stored, linked to a file or under its raw basename.
CandidatoArmazenado(l) ==
    \E id \in DOMAIN veiculacoes :
        /\ veiculacoes[id].data_hora.hora = LinhasParseadas[l].data_hora[1]
        /\ veiculacoes[id].data_hora.minuto = LinhasParseadas[l].data_hora[2]
        /\ veiculacoes[id].frequencia = FrequenciaDoLog
        /\ veiculacoes[id].fonte = "zara_log"

\* C35: every candidate read from the log is eventually stored, provided the
\* application eventually answers and the same monitor keeps reading the file: a
\* candidate whose submission failed is submitted again on a later read.
C35_CandidatoAcabaArmazenado ==
    AplicacaoAcabaRespondendo =>
        \A pos \in 1..MaxLinhas :
            CandidatoLido(pos)
                ~> (CandidatoLido(pos) /\ CandidatoArmazenado(monitor.arquivo[pos]))

\* --------------------------------------------------- the cache of the lookups
\* Candidates as parse_line yields them: the registered spot at two hours and under
\* two spellings of its basename, and the spot that is not registered.
Candidatos ==
    {[resultado |-> "dict", nome_arquivo |-> Texto(c[1]), data_hora |-> <<c[2], 0, 0>>,
      tipo_programa |-> NullStr, frequencia |-> FrequenciaDoLog] :
        c \in {<<"SPOT_CLIENTE.mp3", 10>>, <<"SPOT_CLIENTE.mp3", 11>>,
               <<"spot_cliente.MP3", 11>>, <<"avulso.mp3", 10>>}}

\* What the first requests of a call meet: nothing, or a failure of the first
\* request, or of the second.
FilasDaBusca ==
    {<< >>, <<FalhaDeRede>>, <<Resposta(401)>>, <<Resposta(500)>>,
     <<SemFalha, Resposta(401)>>}

\* One call of create_veiculacoes_from_logs with one or two candidates, the first
\* requests of which meet any of the failures.
CreateVeiculacoesFromLogs ==
    \E c1 \in Candidatos, mais \in {<< >>} \cup {<<c>> : c \in Candidatos},
       fila \in FilasDaBusca :
        LET r == create_veiculacoes_from_logs(monitor, veiculacoes, proximoId,
                                              <<c1>> \o mais, fila)
        IN  /\ r.mon.erros <= MaxErros + MaxLinhas
            /\ monitor' = r.mon
            /\ veiculacoes' = r.veics
            /\ proximoId' = r.prox
            /\ UNCHANGED <<contratos, itens, metas, credito, entrada, saida, passo, watch>>

SpecCache == InitMonitor /\ [][CreateVeiculacoesFromLogs]_vars

\* The items a step hands to the submission carry what the cache records for
\* their basename: no identity for an item with a raw basename, the identity of
\* some cached basename otherwise.
ItensConformeCache ==
    \A k \in (Len(monitor.enviados) + 1)..Len(monitor'.enviados) :
        LET item == monitor'.enviados[k]
        IN  IF item.arquivo_audio_id = NULL
            THEN monitor'.arquivo_id_cache[lower(strip(item.nome_arquivo_raw))] = NULL
            ELSE \E nome_key \in DOMAIN monitor'.arquivo_id_cache :
                     monitor'.arquivo_id_cache[nome_key] = item.arquivo_audio_id

UmaBuscaPorNome ==
    /\ \A nome_key \in DOMAIN monitor'.buscas : monitor'.buscas[nome_key] = 1
    /\ DOMAIN monitor'.buscas = DOMAIN monitor'.arquivo_id_cache
    /\ \A nome_key \in DOMAIN monitor.arquivo_id_cache :
           monitor'.arquivo_id_cache[nome_key] = monitor.arquivo_id_cache[nome_key]
    /\ ItensConformeCache

\* C31: one monitor sends at most one lookup for each basename, compared trimmed
\* and in lower case; what that lookup recorded, an identity or none, is never
\* replaced and is what every later candidate of the basename is submitted with,
\* whatever the lookups would answer later.
C31_UmaBuscaPorNome == [][UmaBuscaPorNome]_vars

\* The only lookup of the registered spot failed: two starts of it, under two
\* spellings of the basename, were submitted with no identity.
C31_CadastradoSemIdentidade ==
    /\ monitor.buscas = (Texto("spot_cliente.mp3") :> 1)
    /\ \E j, k \in 1..Len(monitor.enviados) :
          /\ monitor.enviados[j].arquivo_audio_id = NULL
          /\ monitor.enviados[k].arquivo_audio_id = NULL
          /\ monitor.enviados[j].nome_arquivo_raw = Texto("SPOT_CLIENTE.mp3")
          /\ monitor.enviados[k].nome_arquivo_raw = Texto("spot_cliente.MP3")
          /\ monitor.enviados[j].data_hora.hora = 10

\* ------------------------------------------------------------- the watch mode
\* Time is counted in halves of a second. Config.WATCH_DEBOUNCE_SECONDS (1.5 s) and
\* the sleep of the loop of run_watch_mode (1 s).
WATCH_DEBOUNCE_SECONDS == 3
SonoDoLaco == 2

\* debounce = max(0.0, self.config.WATCH_DEBOUNCE_SECONDS)
debounce == IF WATCH_DEBOUNCE_SECONDS > 0 THEN WATCH_DEBOUNCE_SECONDS ELSE 0

\* The log files of the watched directory: file 1 is the log file the automation
\* software writes (monitor.arquivo), file 2 a log file of another day that stays
\* empty.
ArquivosObservados == {1, 2}

\* self._pending_events, a dict, is the sequence of its entries in the order of
\* their insertion; a marker holds the time elapsed since its last_event_at, up
\* to the debounce.
TemMarcador(pending_events, key) ==
    \E k \in 1..Len(pending_events) : pending_events[k].key = key

\* LogMonitor.enqueue_file_event: self._pending_events[key] = {...} replaces the
\* marker of the key where it is, or inserts it last.
enqueue_file_event(pending_events, key) ==
    IF TemMarcador(pending_events, key)
    THEN [k \in 1..Len(pending_events) |->
             IF pending_events[k].key = key THEN [key |-> key, idade |-> 0]
             ELSE pending_events[k]]
    ELSE Append(pending_events, [key |-> key, idade |-> 0])

\* LogFileEventHandler.on_modified, run by the thread of the observer: it enqueues
\* and reads nothing. The process is alive; the environment stops notifying once
\* the monitor has counted MaxErros errors.
OnModified ==
    \E key \in ArquivosObservados :
        /\ watch.pc # "parado"
        /\ monitor.erros <= MaxErros
        /\ watch' = [watch EXCEPT !.pending_events = enqueue_file_event(@, key)]
        /\ UNCHANGED <<veiculacoes, proximoId, contratos, itens, metas, credito,
                       entrada, saida, passo, monitor>>

\* Half a second passes, during the sleep of the loop or during the reads of a
\* flush; the selection of the markers takes less than that.
Tempo ==
    /\ watch.pc \in {"sleep", "flush"}
    /\ watch' = [watch EXCEPT
           !.pending_events = [k \in 1..Len(@) |->
                                  [@[k] EXCEPT !.idade = Min({@ + 1, debounce})]],
           !.dormido = IF watch.pc = "sleep" THEN Min({@ + 1, SonoDoLaco}) ELSE @]
    /\ UNCHANGED <<veiculacoes, proximoId, contratos, itens, metas, credito,
                   entrada, saida, passo, monitor>>

\* flush_pending_file_events after time.sleep(1): it returns when there is no
\* marker, and takes now and starts the iteration over the dict otherwise.
IniciarFlush ==
    /\ watch.pc = "sleep"
    /\ watch.dormido >= SonoDoLaco
    /\ watch' = IF watch.pending_events = << >>
                THEN [watch EXCEPT !.dormido = 0]
                ELSE [watch EXCEPT !.pc = "select", !.pos = 1,
                                   !.tamanho = Len(watch.pending_events),
                                   !.keys_processar = << >>]
    /\ UNCHANGED <<veiculacoes, proximoId, contratos, itens, metas, credito,
                   entrada, saida, passo, monitor>>

\* One step of the iteration that builds keys_processar. The iterator of a dict
\* raises RuntimeError when the size of the dict is no longer the one it started
\* with; nothing catches it in flush_pending_file_events or in run_watch_mode, and
\* the process ends. Otherwise the marker at the position is selected when
\* now - last_event_at >= debounce, and the iteration ends after the last entry.
Selecionar ==
    /\ watch.pc = "select"
    /\ watch' = IF Len(watch.pending_events) # watch.tamanho
                THEN [watch EXCEPT !.pc = "parado"]
                ELSE IF watch.pos > Len(watch.pending_events)
                THEN [watch EXCEPT !.pc = "flush"]
                ELSE LET ev == watch.pending_events[watch.pos]
                     IN  [watch EXCEPT !.pos = @ + 1,
                                       !.keys_processar =
                                           IF ev.idade >= debounce
                                           THEN Append(@, ev.key) ELSE @]
    /\ UNCHANGED <<veiculacoes, proximoId, contratos, itens, metas, credito,
                   entrada, saida, passo, monitor>>

\* The lines a read from the stored offset hands to the parser: all of them, or
\* those up to the first that raises.
LinhasEntregues(mon) ==
    LET res == Parseadas(LinhasLidas(mon, TRUE))
        falhas == {k \in 1..Len(res) : res[k] = Excecao}
    IN  IF falhas = {} THEN Len(res) ELSE Min(falhas)

\* The body of the loop over keys_processar: the marker the dict holds for the key
\* is popped and the file is read from its stored offset.
Processar ==
    /\ watch.pc = "flush"
    /\ watch.keys_processar # << >>
    /\ LET key == Head(watch.keys_processar)
           r == IF key = 1
                THEN process_log_file(monitor, veiculacoes, proximoId, TRUE, << >>)
                ELSE [mon |-> monitor, veics |-> veiculacoes, prox |-> proximoId]
       IN  /\ watch' = [watch EXCEPT
                  !.pending_events = SelectSeq(@, LAMBDA ev : ev.key # key),
                  !.keys_processar = Tail(@),
                  !.lidas = IF key = 1 THEN @ + LinhasEntregues(monitor) ELSE @]
           /\ monitor' = r.mon
           /\ veiculacoes' = r.veics
           /\ proximoId' = r.prox
    /\ UNCHANGED <<contratos, itens, metas, credito, entrada, saida, passo>>

\* flush_pending_file_events returns and the loop sleeps again.
TerminarFlush ==
    /\ watch.pc = "flush"
    /\ watch.keys_processar = << >>
    /\ watch' = [watch EXCEPT !.pc = "sleep", !.dormido = 0]
    /\ UNCHANGED <<veiculacoes, proximoId, contratos, itens, metas, credito,
                   entrada, saida, passo, monitor>>

\* The main thread of run_watch_mode.
Laco ==
    \/ IniciarFlush
    \/ Selecionar
    \/ Processar
    \/ TerminarFlush

NextWatch ==
    \/ EscreverLinha
    \/ OnModified
    \/ Tempo
    \/ IniciarFlush
    \/ Selecionar
    \/ Processar
    \/ TerminarFlush

SpecWatch == InitMonitor /\ [][NextWatch]_vars

\* The watch mode over a log file that nobody writes, where time passes and the
\* main thread runs.
NextWatchSemEscrita ==
    \/ OnModified
    \/ Tempo
    \/ IniciarFlush
    \/ Selecionar
    \/ Processar
    \/ TerminarFlush

SpecWatchJusto ==
    InitMonitor /\ [][NextWatchSemEscrita]_vars /\ WF_vars(Tempo) /\ WF_vars(Laco)

\* A marker that a step removes had its last notification at least a debounce ago.
DebounceRespeitado ==
    \A k \in 1..Len(watch.pending_events) :
        LET ev == watch.pending_events[k]
        IN  ~TemMarcador(watch'.pending_events, ev.key) => ev.idade >= debounce

\* C26: in watch mode a notification only creates or refreshes the marker of its
\* file and reads nothing, and the file of a marker is read only when the last
\* notification the marker records is at least the debounce old, also when a
\* notification for the file arrives while the tick selects or flushes.
C26_LeituraSoAposDebounce == [][DebounceRespeitado]_vars

\* The marker of a file is pending and its last notification is a debounce old.
MarcadorMaduro(key) ==
    \E k \in 1..Len(watch.pending_events) :
        /\ watch.pending_events[k].key = key
        /\ watch.pending_events[k].idade >= debounce

\* C30: the notifications of a file are one marker with the time of the last of
\* them, and once that time is a debounce old the marker leads to the read of the
\* file (which removes it) unless a new notification refreshes it first, whatever
\* happens to the markers of the other files.
C30_MarcadorLevaALeitura ==
    \A key \in ArquivosObservados : MarcadorMaduro(key) ~> ~MarcadorMaduro(key)

\* No notification is recent: the last notification of every pending file is at
\* least a debounce old, or the process has ended and handles none.
SemNotificacaoRecente ==
    \/ watch.pc = "parado"
    \/ \A k \in 1..Len(watch.pending_events) : watch.pending_events[k].idade >= debounce

\* C36: in watch mode no notification is lost: while the loop keeps ticking, the
\* marker a notification leaves is eventually removed by the tick that reads the
\* file from its stored offset, once the notifications pause for a debounce, also
\* when the notification arrives while a tick selects, removes or reads.
C36_NotificacaoLevaALeitura ==
    <>[]SemNotificacaoRecente =>
        \A key \in ArquivosObservados :
            TemMarcador(watch.pending_events, key) ~> ~TemMarcador(watch.pending_events, key)

\* C27: the incremental reads of a file that only grows hand each of its lines to
\* the parser once: the lines handed so far are never more than the lines of the
\* file.
C27_CadaLinhaUmaVez == watch.lidas <= Len(monitor.arquivo)

\* ------------------------------------------------- the items of the contracts
\* Most contracts of the table in this part. Tables contratos and contrato_itens
\* are reduced here to the columns the rule reads: data_fim of the contract (NULL
\* for a contract with no end), and contrato_id, quantidade_contratada and
\* quantidade_diaria_meta of the item (NULL for None; the schemas accept only
\* values above 0).
MaxContratos == 2

ItensDe(tabela, contrato_id) ==
    {[quantidade_contratada |-> tabela[i].quantidade_contratada,
      quantidade_diaria_meta |-> tabela[i].quantidade_diaria_meta] :
        i \in {j \in DOMAIN tabela : tabela[j].contrato_id = contrato_id}}

\* A validation that only asks for an item.
ValidarSoUmItem(data_fim, lista) == IF lista = {} THEN 400 ELSE 200

\* _validar_regras_itens_por_tipo_contrato: 400 for no item, for a contract with an
\* end and no item with quantidade_contratada above 0, for a contract with no end
\* and no item with quantidade_diaria_meta above 0.
validar_regras_itens_por_tipo_contrato(data_fim, lista) ==
    IF lista = {} THEN 400
    ELSE IF data_fim # NULL
    THEN (IF \E item \in lista : item.quantidade_contratada > 0 THEN 200 ELSE 400)
    ELSE (IF \E item \in lista : item.quantidade_diaria_meta > 0 THEN 200 ELSE 400)

\* ContratoItemCreate: one of the two quantities at least (validar_meta_total_ou_diaria).
ItensCreate ==
    {item \in [quantidade_contratada : {NULL, 1}, quantidade_diaria_meta : {NULL, 1}] :
        item.quantidade_contratada # NULL \/ item.quantidade_diaria_meta # NULL}

\* criar_contrato with a client that exists and no quota: the rule, then
\* criar_contrato_com_itens.
criar_contrato(cs, is, data_fim, novos) ==
    IF validar_regras_itens_por_tipo_contrato(data_fim, {novos[k] : k \in 1..Len(novos)}) = 400
    THEN [status |-> 400, contratos |-> cs, itens |-> is]
    ELSE LET id == Cardinality(DOMAIN cs) + 1
             n == Cardinality(DOMAIN is)
         IN  [status |-> 201,
              contratos |-> cs @@ (id :> [data_fim |-> data_fim]),
              itens |-> is @@ [i \in (n + 1)..(n + Len(novos)) |->
                                  [contrato_id |-> id,
                                   quantidade_contratada |-> novos[i - n].quantidade_contratada,
                                   quantidade_diaria_meta |-> novos[i - n].quantidade_diaria_meta]]]

\* adicionar_item_contrato
adicionar_item_contrato(cs, is, contrato_id, item) ==
    IF contrato_id \notin DOMAIN cs THEN [status |-> 404, contratos |-> cs, itens |-> is]
    ELSE IF validar_regras_itens_por_tipo_contrato(cs[contrato_id].data_fim,
                ItensDe(is, contrato_id) \cup {item}) = 400
    THEN [status |-> 400, contratos |-> cs, itens |-> is]
    ELSE [status |-> 201, contratos |-> cs,
          itens |-> is @@ ((Cardinality(DOMAIN is) + 1) :>
                              [contrato_id |-> contrato_id,
                               quantidade_contratada |-> item.quantidade_contratada,
                               quantidade_diaria_meta |-> item.quantidade_diaria_meta])]

\* atualizar_item_contrato: the fields the request sets (model_dump(exclude_unset=True))
\* are assigned to the row in the session, then the item and the rule are checked;
\* an HTTPException leaves the session without commit.
atualizar_item_contrato(cs, is, contrato_id, item_id, item_update) ==
    IF item_id \notin DOMAIN is \/ is[item_id].contrato_id # contrato_id
    THEN [status |-> 404, contratos |-> cs, itens |-> is]
    ELSE LET db_item ==
                 [is[item_id] EXCEPT
                     !.quantidade_contratada =
                         IF "quantidade_contratada" \in item_update.campos
                         THEN item_update.quantidade_contratada ELSE @,
                     !.quantidade_diaria_meta =
                         IF "quantidade_diaria_meta" \in item_update.campos
                         THEN item_update.quantidade_diaria_meta ELSE @]
             sessao == [is EXCEPT ![item_id] = db_item]
         IN  IF db_item.quantidade_contratada = NULL /\ db_item.quantidade_diaria_meta = NULL
             THEN [status |-> 400, contratos |-> cs, itens |-> is]
             ELSE IF validar_regras_itens_por_tipo_contrato(cs[contrato_id].data_fim,
                         ItensDe(sessao, contrato_id)) = 400
             THEN [status |-> 400, contratos |-> cs, itens |-> is]
             ELSE [status |-> 200, contratos |-> cs, itens |-> sessao]

\* atualizar_contrato of a contract with no invoice.
atualizar_contrato(cs, is, contrato_id, contrato_update) ==
    IF contrato_id \notin DOMAIN cs THEN [status |-> 404, contratos |-> cs, itens |-> is]
    ELSE LET data_fim == IF "data_fim" \in contrato_update.campos
                         THEN contrato_update.data_fim ELSE cs[contrato_id].data_fim
         IN  IF validar_regras_itens_por_tipo_contrato(data_fim, ItensDe(is, contrato_id)) = 400
             THEN [status |-> 400, contratos |-> cs, itens |-> is]
             ELSE [status |-> 200, contratos |-> [cs EXCEPT ![contrato_id].data_fim = data_fim],
                   itens |-> is]

\* The answer of a request of this part and the tables after it.
Responder(r) ==
    /\ contratos' = r.contratos
    /\ itens' = r.itens
    /\ saida' = <<r.status>>
    /\ UNCHANGED <<veiculacoes, proximoId, metas, credito, entrada, passo, monitor, watch>>

CriarContrato ==
    \E data_fim \in {NULL, DiaDoLog}, item1 \in ItensCreate, mais \in {<< >>} \cup {<<i>> : i \in ItensCreate} :
        /\ Cardinality(DOMAIN contratos) < MaxContratos
        /\ Cardinality(DOMAIN itens) + 1 + Len(mais) <= MaxItens
        /\ Responder(criar_contrato(contratos, itens, data_fim, <<item1>> \o mais))

AdicionarItemContrato ==
    \E contrato_id \in 1..MaxContratos, item \in ItensCreate :
        /\ Cardinality(DOMAIN itens) < MaxItens
        /\ Responder(adicionar_item_contrato(contratos, itens, contrato_id, item))

AtualizarItemContrato ==
    \E contrato_id \in 1..MaxContratos, item_id \in 1..MaxItens,
       item_update \in [campos : SUBSET {"quantidade_contratada", "quantidade_diaria_meta"},
                        quantidade_contratada : {NULL, 1},
                        quantidade_diaria_meta : {NULL, 1}] :
        LET r == atualizar_item_contrato(contratos, itens, contrato_id, item_id, item_update)
        IN  /\ r.status \in {200, 400, 404}
            /\ Responder(r)

AtualizarContrato ==
    \E contrato_id \in 1..MaxContratos,
       contrato_update \in [campos : SUBSET {"data_fim"}, data_fim : {NULL, DiaDoLog}] :
        LET r == atualizar_contrato(contratos, itens, contrato_id, contrato_update)
        IN  /\ r.status \in {200, 400, 404}
            /\ Responder(r)

NextContratos ==
    \/ CriarContrato
    \/ AdicionarItemContrato
    \/ AtualizarItemContrato
    \/ AtualizarContrato

\* The application with no contract.
InitContratos ==
    /\ veiculacoes = << >>
    /\ proximoId = 1
    /\ contratos = << >>
    /\ itens = << >>
    /\ metas = << >>
    /\ credito = << >>
    /\ InitOutras

SpecContratos == InitContratos /\ [][NextContratos]_vars

\* Every contract with an end has an item with a total above 0, every contract
\* with no end an item with a daily target above 0.
RegraDosItens(cs, is) ==
    \A c \in DOMAIN cs :
        IF cs[c].data_fim # NULL
        THEN \E i \in DOMAIN is : is[i].contrato_id = c /\ is[i].quantidade_contratada > 0
        ELSE \E i \in DOMAIN is : is[i].contrato_id = c /\ is[i].quantidade_diaria_meta > 0

RegraMantida ==
    /\ RegraDosItens(contratos', itens')
    /\ saida' = <<400>> => contratos' = contratos /\ itens' = itens

\* C29: after every creation of a contract, addition of an item, update of an item
\* and update of a contract, each contract with an end has an item with a total
\* above 0 and each contract with no end an item with a daily target above 0; the
\* request answered 400 leaves the tables as they were.
C29_RegraDosItensMantida == [][RegraMantida]_vars

\* A contract with no end and two items, only one of which has a daily target, has
\* just refused a request.
C29_PedidoRecusado ==
    /\ saida = <<400>>
    /\ \E c \in DOMAIN contratos :
          /\ contratos[c].data_fim = NULL
          /\ \E i, j \in DOMAIN itens :
                /\ i # j
                /\ itens[i].contrato_id = c /\ itens[j].contrato_id = c
                /\ itens[i].quantidade_diaria_meta = NULL
                /\ itens[j].quantidade_diaria_meta > 0


====
